---- MODULE Spec2Model ----
(***************************************************************************)
(* PICNIC: node graph builder (NipibipyWorkflow), pipeline driver          *)
(* (Pipeline.build_workflow), batch driver (run.py __main__), Card         *)
(* construction and deck reader (input_deck_reader).                       *)
(*                                                                         *)
(* Strings are sequences of symbols.  The symbols "@" and "." are the      *)
(* characters the code tests for (startswith('@'), split('.')); every      *)
(* other symbol stands for a run of characters holding neither.            *)
(***************************************************************************)
EXTENDS Integers, Sequences, FiniteSets, TLC

VARIABLES all_nodes, connections, node_inputs, sink, sink_connections,
          n_added, last_add, graph_err

graph_vars == <<all_nodes, connections, node_inputs, sink, sink_connections,
                n_added, last_add, graph_err>>

\* one deck run (Pipeline)
\* parsed_cards keeps the cards as read_input_deck returned them; events is
\* the log of the lines of build_workflow that have completed
VARIABLES inp_cards, pipeline_instances, pipeline_workflows, sink_directory,
          report_body, html_written, pc, card_i, pipe_err, events, parsed_cards

pipe_vars == <<inp_cards, pipeline_instances, pipeline_workflows, sink_directory,
               report_body, html_written, pc, card_i, pipe_err, events, parsed_cards>>

\* the batch of decks (run.py __main__)
VARIABLES inps, inp_i, pipelines, failed_runs, attempts

batch_vars == <<inps, inp_i, pipelines, failed_runs, attempts>>

\* the interpreter's __debug__: FALSE under python -O, where assert
\* statements are compiled away
VARIABLES __debug__

\* one call Card(cardname, *all_paras): ctor_user is the mapping the
\* parameters setter built, ctor_defaults the record _load_defaults returned
VARIABLES ctor_pc, ctor_cardname, ctor_paras, ctor_err, ctor_card, ctor_user,
          ctor_defaults

ctor_vars == <<ctor_pc, ctor_cardname, ctor_paras, ctor_err, ctor_card, ctor_user,
               ctor_defaults>>

\* one call of InputDeck.read_inp on the lines of text
VARIABLES text, read_pc, read_err, deck_cards, read_at

read_vars == <<text, read_pc, read_err, deck_cards, read_at>>

\* one CardBuilder holding datalines: a call of _check_dataline_syntax
\* (expected_lines, expected_in_lines) and a call of
\* _force_parameter_to_integer(val, parameter_name)
VARIABLES bld_pc, bld_datalines, expected_lines, expected_in_lines, bld_err,
          bld_msg, force_val, force_out

builder_vars == <<bld_pc, bld_datalines, expected_lines, expected_in_lines,
                  bld_err, bld_msg, force_val, force_out>>

\* calls of InputDeck.add_card on the deck deck_cards: add_call is the
\* last call, add_attr the attribute add_dataline of the Card it appended
VARIABLES add_n, add_call, add_err, add_attr

addcard_vars == <<add_n, add_call, add_err, add_attr>>

\* the pantry: the cards of its Deck, the file save_input_deck wrote and
\* the cards the -LOAD- event read back from it
VARIABLES pantry_pc, pantry_cards, filename, saved_text, pantry_err,
          loaded_cards

pantry_vars == <<pantry_pc, pantry_cards, filename, saved_text, pantry_err,
                 loaded_cards>>

\* Deck.check_for_variables on pantry_cards: variables is Deck.variables,
\* scan_item the string the for loops are at, scan_idx the idx of the
\* while loop
VARIABLES variables, scan_pc, scan_item, scan_idx, scan_err

scan_vars == <<variables, scan_pc, scan_item, scan_idx, scan_err>>

other_vars == <<builder_vars, addcard_vars, pantry_vars, scan_vars>>

reader_vars == <<__debug__, ctor_vars, read_vars, other_vars>>

vars == <<graph_vars, pipe_vars, batch_vars, reader_vars>>

(***************************************************************************)
(* String helpers                                                          *)
(***************************************************************************)
\* str.startswith(c) for a one-character prefix
StartsWith(s, c) == Len(s) > 0 /\ s[1] = c

\* s[1:]
DropFirst(s) == IF Len(s) = 0 THEN s ELSE Tail(s)

\* str.split(sep): the pieces between separators, empty pieces kept
RECURSIVE SplitAcc(_, _, _, _)
SplitAcc(s, sep, cur, acc) ==
    IF Len(s) = 0 THEN Append(acc, cur)
    ELSE IF Head(s) = sep THEN SplitAcc(Tail(s), sep, <<>>, Append(acc, cur))
    ELSE SplitAcc(Tail(s), sep, Append(cur, Head(s)), acc)

Split(s, sep) == SplitAcc(s, sep, <<>>, <<>>)

\* x in a tuple / list
InSeq(x, seq) == \E i \in 1..Len(seq) : seq[i] = x

\* str.lstrip / rstrip / strip of whitespace
RECURSIVE LStrip(_)
LStrip(s) == IF Len(s) > 0 /\ Head(s) = " " THEN LStrip(Tail(s)) ELSE s

RECURSIVE RStrip(_)
RStrip(s) == IF Len(s) > 0 /\ s[Len(s)] = " " THEN RStrip(SubSeq(s, 1, Len(s) - 1)) ELSE s

Strip(s) == RStrip(LStrip(s))

\* str.lower()
LowerSym(c) ==
    CASE c = "START" -> "start"
      [] c = "END" -> "end"
      [] c = "B" -> "b"
      [] OTHER -> c

Lower(s) == [j \in 1..Len(s) |-> LowerSym(s[j])]

\* a literal that is no string (the 1 of {'idx' : 1}), and isinstance(v, str)
IntLit == <<"int 1">>
IsStr(v) == v # IntLit

(***************************************************************************)
(* Node graph builder                                                      *)
(***************************************************************************)
MaxAdds == 2

NodeNames == {<<"a">>, <<"b">>}
OutflowChoices == {<<>>, << <<"o">>, <<"p">> >>}
InKeys == {"in_file"}
InValues == {IntLit, <<"x">>, <<"@", "a">>, <<"@", "b">>,
             <<"@", "a", ".", "p">>, <<"@", "a", ".", "q">>,
             <<"@", "a", ".", "o", ".", "p">>}
InflowChoices == {<<>>} \cup {<< <<k, v>> >> : k \in InKeys, v \in InValues}
ToSinkChoices == {<<>>, << <<"o">> >>}

\* NipibipyWorkflow.connect_nodes: one workflow.connect call
connect_nodes(conns, nodes, in_node_name, in_connection, out_node_name, out_connection) ==
    conns \cup {[src |-> nodes[out_node_name].node, out |-> out_connection,
                 dst |-> nodes[in_node_name].node, inp |-> in_connection]}

\* AssignOne with the fall-through to setattr skipped for '@' values
AssignOneDroppingUnresolved(nodes, node_name, k, v, st) ==
    LET literal == [st EXCEPT !.inputs = st.inputs \cup
                        {[node |-> nodes[node_name].node, key |-> k, value |-> v]}]
    IN  IF IsStr(v) /\ StartsWith(v, "@")
        THEN LET cc == Split(DropFirst(v), ".")
             IN  IF cc[1] \in DOMAIN nodes
                 THEN IF Len(cc) = 1 /\ Len(nodes[cc[1]].outflows) = 0
                      THEN [st EXCEPT !.err = "IndexError"]
                      ELSE LET cc2 == IF Len(cc) = 1
                                      THEN Append(cc, nodes[cc[1]].outflows[1])
                                      ELSE cc
                           IN  IF Len(cc2) = 2 /\ InSeq(cc2[2], nodes[cc2[1]].outflows)
                               THEN [st EXCEPT !.conns = connect_nodes(st.conns, nodes, node_name, k, cc2[1], cc2[2])]
                               ELSE st
                 ELSE st
        ELSE literal

\* AssignOne without the test of line 120
AssignOneUncheckedOutput(nodes, node_name, k, v, st) ==
    LET literal == [st EXCEPT !.inputs = st.inputs \cup
                        {[node |-> nodes[node_name].node, key |-> k, value |-> v]}]
    IN  IF IsStr(v) /\ StartsWith(v, "@")
        THEN LET cc == Split(DropFirst(v), ".")
             IN  IF cc[1] \in DOMAIN nodes
                 THEN IF Len(cc) = 1 /\ Len(nodes[cc[1]].outflows) = 0
                      THEN [st EXCEPT !.err = "IndexError"]
                      ELSE LET cc2 == IF Len(cc) = 1
                                      THEN Append(cc, nodes[cc[1]].outflows[1])
                                      ELSE cc
                           IN  IF Len(cc2) = 2
                               THEN [st EXCEPT !.conns = connect_nodes(st.conns, nodes, node_name, k, cc2[1], cc2[2])]
                               ELSE literal
                 ELSE literal
        ELSE literal

\* AssignOne with the last declared output substituted at line 117
AssignOneTakingLastOutput(nodes, node_name, k, v, st) ==
    LET literal == [st EXCEPT !.inputs = st.inputs \cup
                        {[node |-> nodes[node_name].node, key |-> k, value |-> v]}]
    IN  IF IsStr(v) /\ StartsWith(v, "@")
        THEN LET cc == Split(DropFirst(v), ".")
             IN  IF cc[1] \in DOMAIN nodes
                 THEN IF Len(cc) = 1 /\ Len(nodes[cc[1]].outflows) = 0
                      THEN [st EXCEPT !.err = "IndexError"]
                      ELSE LET outs == nodes[cc[1]].outflows
                               cc2 == IF Len(cc) = 1
                                      THEN Append(cc, outs[Len(outs)])
                                      ELSE cc
                           IN  IF Len(cc2) = 2 /\ InSeq(cc2[2], nodes[cc2[1]].outflows)
                               THEN [st EXCEPT !.conns = connect_nodes(st.conns, nodes, node_name, k, cc2[1], cc2[2])]
                               ELSE literal
                 ELSE literal
        ELSE literal

\* the body of the loop of assign_node_inputs for one (k, v) of inflows;
\* st = [conns, inputs, err]
AssignOne(nodes, node_name, k, v, st) ==
    LET literal == [st EXCEPT !.inputs = st.inputs \cup
                        {[node |-> nodes[node_name].node, key |-> k, value |-> v]}]
    IN  IF IsStr(v) /\ StartsWith(v, "@")
        THEN LET cc == Split(DropFirst(v), ".")
             IN  IF cc[1] \in DOMAIN nodes
                 THEN IF Len(cc) = 1 /\ Len(nodes[cc[1]].outflows) = 0
                      THEN [st EXCEPT !.err = "IndexError"]
                      ELSE LET cc2 == IF Len(cc) = 1
                                      THEN Append(cc, nodes[cc[1]].outflows[1])
                                      ELSE cc
                           IN  IF Len(cc2) = 2 /\ InSeq(cc2[2], nodes[cc2[1]].outflows)
                               THEN [st EXCEPT !.conns = connect_nodes(st.conns, nodes, node_name, k, cc2[1], cc2[2])]
                               ELSE literal
                 ELSE literal
        ELSE literal

\* NipibipyWorkflow.assign_node_inputs: the loop over inflows.items(), which
\* an exception leaves at the item that raised
RECURSIVE assign_node_inputs(_, _, _, _)
assign_node_inputs(nodes, node_name, inflows, st) ==
    IF Len(inflows) = 0 \/ st.err # "none" THEN st
    ELSE assign_node_inputs(nodes, node_name, Tail(inflows),
                            AssignOne(nodes, node_name, Head(inflows)[1], Head(inflows)[2], st))

\* NipibipyWorkflow.sink_outflows
sink_outflows(sinks, nodes, node_name, outflows) ==
    IF sink
    THEN sinks \cup {[src |-> nodes[node_name].node, out |-> outflows[i], name |-> node_name] : i \in 1..Len(outflows)}
    ELSE sinks

\* the common body of add_node and add_mapnode
AddToWorkflow(kind, name, inflows, outflows, to_sink) ==
    LET id    == n_added + 1
        nodes == [n \in DOMAIN all_nodes \cup {name} |->
                     IF n = name THEN [node |-> id, kind |-> kind, outflows |-> outflows]
                     ELSE all_nodes[n]]
        st    == assign_node_inputs(nodes, name, inflows,
                     [conns |-> connections, inputs |-> node_inputs, err |-> "none"])
    IN  /\ n_added < MaxAdds
        /\ n_added' = id
        /\ all_nodes' = nodes
        /\ connections' = st.conns
        /\ node_inputs' = st.inputs
        /\ graph_err' = st.err
        /\ sink_connections' = IF st.err = "none"
                               THEN sink_outflows(sink_connections, nodes, name, to_sink)
                               ELSE sink_connections
        /\ last_add' = [name |-> name, node |-> id, inflows |-> inflows,
                        before |-> all_nodes]
        /\ UNCHANGED <<sink, pipe_vars, batch_vars, reader_vars>>

add_node ==
    \E name \in NodeNames, inflows \in InflowChoices,
       outflows \in OutflowChoices, to_sink \in ToSinkChoices :
        AddToWorkflow("Node", name, inflows, outflows, to_sink)

add_mapnode ==
    \E name \in NodeNames, inflows \in InflowChoices,
       outflows \in OutflowChoices, to_sink \in ToSinkChoices :
        AddToWorkflow("MapNode", name, inflows, outflows, to_sink)

NoAdd == [name |-> <<>>, node |-> 0, inflows |-> <<>>, before |-> <<>>]

GraphIdle ==
    /\ all_nodes = <<>>
    /\ connections = {}
    /\ node_inputs = {}
    /\ sink = FALSE
    /\ sink_connections = {}
    /\ n_added = 0
    /\ last_add = NoAdd
    /\ graph_err = "none"

(***************************************************************************)
(* Cards and step implementations (picnic.cards)                           *)
(***************************************************************************)
PyTrue == <<"bool True">>
PyFalse == <<"bool False">>

PyNone == <<"NoneType None">>

\* the truth value python gives a parameter in `if self._report:` and an
\* argument in `if expected_lines:`
Truthy(v) == v # PyFalse /\ v # <<>> /\ v # PyNone

\* os.path.join of relative components: empty components are skipped
RECURSIVE PathJoin(_)
PathJoin(parts) ==
    IF Len(parts) = 0 THEN <<>>
    ELSE IF Len(parts) = 1 THEN parts[1]
    ELSE IF Len(parts[1]) = 0 THEN PathJoin(Tail(parts))
    ELSE parts[1] \o <<"/">> \o PathJoin(Tail(parts))

\* dict helpers: a dict is the sequence of its (key, value) items in
\* insertion order
HasKey(d, k) == \E j \in 1..Len(d) : d[j][1] = k
Lookup(d, k) == d[CHOOSE j \in 1..Len(d) : d[j][1] = k][2]

\* sep.join(parts)
RECURSIVE JoinWith(_, _)
JoinWith(sep, parts) ==
    IF Len(parts) = 0 THEN <<>>
    ELSE IF Len(parts) = 1 THEN parts[1]
    ELSE parts[1] \o sep \o JoinWith(sep, Tail(parts))

\* the digits; a numeral of the checker strings and of the integer
\* parameters is one digit, with a "-" before it when negative
Digits == {"0", "1", "2", "3", "5", "7"}
DigitValue(c) ==
    CASE c = "0" -> 0
      [] c = "1" -> 1
      [] c = "2" -> 2
      [] c = "3" -> 3
      [] c = "5" -> 5
      [] c = "7" -> 7

\* python int objects and their values
IntObjects == {<<"int 0">>, <<"int 1">>, <<"int 3">>, <<"int 5">>, <<"int 7">>,
               <<"int -3">>}
IntOf(v) ==
    CASE v = <<"int 0">> -> 0
      [] v = <<"int 1">> -> 1
      [] v = <<"int 3">> -> 3
      [] v = <<"int 5">> -> 5
      [] v = <<"int 7">> -> 7
      [] v = <<"int -3">> -> -3

\* int(x) of a bool, an int, None or a str: surrounding whitespace of a
\* str is ignored, anything but an optionally signed numeral is a
\* ValueError
int(x) ==
    IF x = PyTrue THEN [err |-> "none", val |-> 1]
    ELSE IF x = PyFalse THEN [err |-> "none", val |-> 0]
    ELSE IF x \in IntObjects THEN [err |-> "none", val |-> IntOf(x)]
    ELSE IF x = PyNone THEN [err |-> "TypeError", val |-> 0]
    ELSE LET t == Strip(x)
         IN  IF Len(t) = 1 /\ t[1] \in Digits
             THEN [err |-> "none", val |-> DigitValue(t[1])]
             ELSE IF Len(t) = 2 /\ t[1] = "-" /\ t[2] \in Digits
             THEN [err |-> "none", val |-> 0 - DigitValue(t[2])]
             ELSE [err |-> "ValueError", val |-> 0]

\* checker_parse: check_str[0], int(check_str[1:])
checker_parse(check_str) ==
    LET n == int(DropFirst(check_str))
    IN  [err |-> n.err, oper |-> check_str[1], e_num |-> n.val]

\* the comparisons of _count_datalines and _count_in_datalines
checker_holds_inclusive(oper, e_num, a_num) ==
    CASE oper = "=" -> a_num = e_num
      [] oper = ">" -> a_num >= e_num
      [] oper = "<" -> a_num <= e_num

checker_holds(oper, e_num, a_num) ==
    CASE oper = "=" -> a_num = e_num
      [] oper = ">" -> a_num > e_num
      [] oper = "<" -> a_num < e_num

CheckerOperators == {"=", ">", "<"}

LinesMessage == <<"Error: Unexpected number of datalines">>
ArgumentsMessage(dataline) ==
    <<"Error: Unexpected number of arguments for dataline: ">>
        \o JoinWith(<<",", " ">>, dataline)
CheckerMessage == <<"Error: Unexpected syntax for the dataline syntax checker">>

\* CardBuilder._count_datalines
_count_datalines(datalines, e_lines) ==
    LET p == checker_parse(e_lines)
    IN  IF p.err # "none" THEN [err |-> p.err, msg |-> <<>>, ok |-> FALSE]
        ELSE IF p.oper \in CheckerOperators
        THEN [err |-> "none", msg |-> <<>>,
              ok |-> checker_holds(p.oper, p.e_num, Len(datalines))]
        ELSE [err |-> "UnexpectedCardSyntaxError", msg |-> CheckerMessage,
              ok |-> FALSE]

\* the loop of CardBuilder._count_in_datalines from dataline j on
RECURSIVE CountInFrom(_, _, _, _, _)
CountInFrom(datalines, j, oper, e_num, debug) ==
    IF j > Len(datalines) THEN [err |-> "none", msg |-> <<>>]
    ELSE IF oper \in CheckerOperators
    THEN IF debug /\ ~checker_holds(oper, e_num, Len(datalines[j]))
         THEN [err |-> "AssertionError", msg |-> ArgumentsMessage(datalines[j])]
         ELSE CountInFrom(datalines, j + 1, oper, e_num, debug)
    ELSE [err |-> "UnexpectedCardSyntaxError", msg |-> CheckerMessage]

\* CardBuilder._count_in_datalines
_count_in_datalines(datalines, e_in_lines, debug) ==
    LET p == checker_parse(e_in_lines)
    IN  IF p.err # "none" THEN [err |-> p.err, msg |-> <<>>]
        ELSE CountInFrom(datalines, 1, p.oper, p.e_num, debug)

\* CardBuilder._check_dataline_syntax: the assert of line 84 evaluates
\* _count_datalines only when assert statements are executed
_check_dataline_syntax(datalines, e_lines, e_in_lines, debug) ==
    LET counted == IF Truthy(e_lines) /\ debug
                   THEN _count_datalines(datalines, e_lines)
                   ELSE [err |-> "none", msg |-> <<>>, ok |-> TRUE]
    IN  IF counted.err # "none" THEN [err |-> counted.err, msg |-> counted.msg]
        ELSE IF ~counted.ok
        THEN [err |-> "AssertionError", msg |-> LinesMessage]
        ELSE IF Truthy(e_in_lines)
        THEN _count_in_datalines(datalines, e_in_lines, debug)
        ELSE [err |-> "none", msg |-> <<>>]

\* the assert of CardBuilder._force_parameter_to_integer
IsPositiveOrZero(val) == val >= 0

IsPositive(val) == val > 0

\* CardBuilder._force_parameter_to_integer(val, parameter_name): desc is
\* the kind of message of the error raised
_force_parameter_to_integer(val, debug) ==
    IF val # PyFalse /\ val # <<"0">>
    THEN LET n == int(val)
         IN  IF n.err = "ValueError"
             THEN [err |-> "UnexpectedCardSyntaxError", desc |-> "integer", val |-> 0]
             ELSE IF n.err # "none"
             THEN [err |-> "UnexpectedCardSyntaxError", desc |-> "unexpected", val |-> 0]
             ELSE IF debug /\ ~IsPositive(n.val)
             THEN [err |-> "UnexpectedCardSyntaxError", desc |-> "positive", val |-> 0]
             ELSE [err |-> "none", desc |-> "none", val |-> n.val]
    ELSE [err |-> "none", desc |-> "none", val |-> 0]

\* Import.set_outflows
Import_set_outflows(card, sink_dir) ==
    << << <<"out_file">>, PathJoin(<<sink_dir, card.parameters.name,
                                card.parameters.name \o <<".", "nii", ".", "gz">> >>)>> >>

\* Tacs.set_outflows
Tacs_set_outflows(card, sink_dir) ==
    << << <<"out_file">>, PathJoin(<<sink_dir, card.parameters.name,
                                card.parameters.name \o <<".", "tsv">> >>)>> >>
    \o (IF Truthy(card.parameters.report)
        THEN << << <<"report">>, PathJoin(<<sink_dir, card.parameters.name,
                                       <<"report", ".", "html">> >>)>> >>
        ELSE <<>>)

StepType(card) == DropFirst(card.cardname)

\* CardBuilder.__init__, lines 41-42 on one value d[key]: a str whose
\* lower-case form is one of the listed words becomes a bool; a value
\* without .lower() (AttributeError) is kept
BooleanWords == {<<"true">>, <<"yes">>, <<"y">>, <<"false">>, <<"no">>, <<"n">>,
                 <<".">>, <<"-">>}
TrueWords == {<<"true">>, <<"yes">>, <<"y">>}
MakeBoolean(v) ==
    IF v \notin {PyTrue, PyFalse, PyNone} /\ Lower(v) \in BooleanWords
    THEN IF Lower(v) \in TrueWords THEN PyTrue ELSE PyFalse
    ELSE v

\* CardBuilder.__init__: self._parameters is card.parameters itself, so
\* the loop of lines 37-46 rewrites the Card's own mapping
CardBuilder_init(card) ==
    [card EXCEPT !.parameters =
        [k \in DOMAIN card.parameters |-> MakeBoolean(card.parameters[k])]]

\* instance.set_outflows(sink_directory) of the card's class
set_outflows(card, sink_dir) ==
    IF StepType(card) = <<"import">> THEN Import_set_outflows(card, sink_dir)
    ELSE Tacs_set_outflows(card, sink_dir)

\* Import.__init__ / Tacs.__init__: the dataline check that lets the
\* constructor return
InstanceOk(card) ==
    IF StepType(card) = <<"import">>
    THEN _check_dataline_syntax(card.datalines, <<">", "0">>, <<"=", "1">>,
                                __debug__).err = "none"
    ELSE _check_dataline_syntax(card.datalines, <<">", "1">>, <<"=", "1">>,
                                __debug__).err = "none"

(***************************************************************************)
(* Pipeline.build_workflow                                                 *)
(***************************************************************************)
MaxCards == 2

StepNames == {<<"A">>, <<"B">>}
DataFields == {<<"f">>, <<"@", "A">>, <<"@", "A", ".", "out_file">>,
               <<"@", "A", ".", "report">>, <<"@", "A", ".", "x">>,
               <<"@", "A", ".", "out_file", ".", "x">>}
\* two lines of one field each, or a single line
DatalineChoices == {<< <<d>>, << <<"g">> >> >> : d \in DataFields} \cup {<< << <<"f">> >> >>}

SinkCards == {[cardname |-> <<"*", "sink">>,
               parameters |-> [name |-> <<"sink">>, report |-> PyFalse],
               datalines |-> << << <<"out">> >> >>]}
ImportCards == {[cardname |-> <<"*", "import">>,
                 parameters |-> [name |-> n, report |-> PyFalse],
                 datalines |-> dl] : n \in StepNames, dl \in DatalineChoices}
TacsCards == {[cardname |-> <<"*", "tacs">>,
               parameters |-> [name |-> n, report |-> r],
               datalines |-> dl] : n \in StepNames, r \in {PyTrue, PyFalse},
                                   dl \in DatalineChoices}
\* a card whose report parameter is still the word of the deck
WordCards == {[cardname |-> <<"*", "tacs">>,
               parameters |-> [name |-> n, report |-> <<"no">>],
               datalines |-> << << <<"f">> >>, << <<"g">> >> >>] : n \in StepNames}
CardChoices == SinkCards \cup ImportCards \cup TacsCards \cup WordCards

RECURSIVE SeqsUpTo(_, _)
SeqsUpTo(S, n) ==
    IF n = 0 THEN {<<>>}
    ELSE LET shorter == SeqsUpTo(S, n - 1)
         IN  shorter \cup {Append(q, x) : q \in {r \in shorter : Len(r) = n - 1}, x \in S}

Decks == SeqsUpTo(CardChoices, MaxCards) \ {<<>>}

IsSink(card) == DropFirst(card.cardname) = <<"sink">>

\* the first pass: the sink card's first field, the last sink card winning
RECURSIVE FindSink(_, _)
FindSink(cards, dir) ==
    IF Len(cards) = 0 THEN dir
    ELSE FindSink(Tail(cards), IF IsSink(Head(cards)) THEN Head(cards).datalines[1][1] ELSE dir)

\* the index of the first card after i that the main loop does not skip;
\* Len + 1 when the loop is over
RECURSIVE NextStep(_, _)
NextStep(cards, i) ==
    IF i + 1 > Len(cards) THEN Len(cards) + 1
    ELSE IF IsSink(cards[i + 1]) THEN NextStep(cards, i + 1)
    ELSE i + 1

\* ResolveField with '@step' taking the last recorded output
ResolveFieldTakingLast(data, instances) ==
    IF StartsWith(data, "@")
    THEN LET splitter == Split(DropFirst(data), ".")
         IN  IF Len(splitter) = 2
             THEN IF splitter[1] \in DOMAIN instances
                     /\ HasKey(instances[splitter[1]].outflows, splitter[2])
                  THEN [err |-> "none", data |-> Lookup(instances[splitter[1]].outflows, splitter[2])]
                  ELSE [err |-> "Exception", data |-> data]
             ELSE IF Len(splitter) = 1
             THEN IF splitter[1] \notin DOMAIN instances
                  THEN [err |-> "KeyError", data |-> data]
                  ELSE IF Len(instances[splitter[1]].outflows) = 0
                  THEN [err |-> "IndexError", data |-> data]
                  ELSE [err |-> "none",
                        data |-> instances[splitter[1]].outflows[Len(instances[splitter[1]].outflows)][2]]
             ELSE [err |-> "Exception", data |-> data]
    ELSE [err |-> "none", data |-> data]

\* lines 111-122: one data field against the output table
ResolveField(data, instances) ==
    IF StartsWith(data, "@")
    THEN LET splitter == Split(DropFirst(data), ".")
         IN  IF Len(splitter) = 2
             THEN IF splitter[1] \in DOMAIN instances
                     /\ HasKey(instances[splitter[1]].outflows, splitter[2])
                  THEN [err |-> "none", data |-> Lookup(instances[splitter[1]].outflows, splitter[2])]
                  ELSE [err |-> "Exception", data |-> data]
             ELSE IF Len(splitter) = 1
             THEN IF splitter[1] \notin DOMAIN instances
                  THEN [err |-> "KeyError", data |-> data]
                  ELSE IF Len(instances[splitter[1]].outflows) = 0
                  THEN [err |-> "IndexError", data |-> data]
                  ELSE [err |-> "none", data |-> instances[splitter[1]].outflows[1][2]]
             ELSE [err |-> "Exception", data |-> data]
    ELSE [err |-> "none", data |-> data]

\* lines 107-125: every field of every data line
ResolveDatalines(datalines, instances) ==
    [j \in 1..Len(datalines) |->
        [k \in 1..Len(datalines[j]) |-> ResolveField(datalines[j][k], instances)]]

\* the first error met in line order, "none" when every field resolves
FirstError(res) ==
    LET bad == {jk \in UNION {{<<j, k>> : k \in 1..Len(res[j])} : j \in 1..Len(res)} :
                    res[jk[1]][jk[2]].err # "none"}
    IN  IF bad = {} THEN "none"
        ELSE LET jk == CHOOSE x \in bad : \A y \in bad :
                           x[1] < y[1] \/ (x[1] = y[1] /\ x[2] <= y[2])
             IN  res[jk[1]][jk[2]].err

Event(ev) == Append(events, [ev |-> ev, card |-> card_i])

\* Raise with the error swallowed and the loop left for the report
RaiseAndGoOn(e) ==
    /\ pc' = "write"
    /\ pipe_err' = e

\* an exception leaves build_workflow: nothing in it catches one
Raise(e) ==
    /\ pc' = "failed"
    /\ pipe_err' = e

\* after a card is finished: the next card of the loop or the report
Advance ==
    LET nxt == NextStep(inp_cards, card_i)
    IN  /\ card_i' = nxt
        /\ pc' = IF nxt > Len(inp_cards) THEN "write" ELSE "bind"

\* ResolveSink looking for the sink card at the head of the deck only
ResolveSinkAtHead ==
    /\ UNCHANGED <<graph_vars, batch_vars, reader_vars>>
    /\ pc = "start"
    /\ sink_directory' = IF IsSink(inp_cards[1])
                         THEN inp_cards[1].datalines[1][1]
                         ELSE sink_directory
    /\ report_body' = <<>>
    /\ LET nxt == NextStep(inp_cards, 0)
       IN  /\ card_i' = nxt
           /\ pc' = IF nxt > Len(inp_cards) THEN "write" ELSE "bind"
    /\ events' = Append(events, [ev |-> "SINK_RESOLVED", card |-> 0])
    /\ UNCHANGED <<inp_cards, pipeline_instances, pipeline_workflows,
                   html_written, pipe_err, parsed_cards>>

\* lines 89-94
ResolveSink ==
    /\ UNCHANGED <<graph_vars, batch_vars, reader_vars>>
    /\ pc = "start"
    /\ sink_directory' = FindSink(inp_cards, sink_directory)
    /\ report_body' = <<>>
    /\ LET nxt == NextStep(inp_cards, 0)
       IN  /\ card_i' = nxt
           /\ pc' = IF nxt > Len(inp_cards) THEN "write" ELSE "bind"
    /\ events' = Append(events, [ev |-> "SINK_RESOLVED", card |-> 0])
    /\ UNCHANGED <<inp_cards, pipeline_instances, pipeline_workflows,
                   html_written, pipe_err, parsed_cards>>

\* lines 106-126
BindCard ==
    /\ UNCHANGED <<graph_vars, batch_vars, reader_vars>>
    /\ pc = "bind"
    /\ LET res == ResolveDatalines(inp_cards[card_i].datalines, pipeline_instances)
           e   == FirstError(res)
       IN  IF e = "none"
           THEN /\ inp_cards' = [inp_cards EXCEPT ![card_i].datalines =
                                    [j \in 1..Len(res) |-> [k \in 1..Len(res[j]) |-> res[j][k].data]]]
                /\ pc' = "instance"
                /\ events' = Event("BOUND")
                /\ UNCHANGED pipe_err
           ELSE /\ Raise(e)
                /\ UNCHANGED <<inp_cards, events>>
    /\ UNCHANGED <<pipeline_instances, pipeline_workflows, sink_directory,
                   report_body, html_written, card_i, parsed_cards>>

\* lines 129-130
RecordInstance ==
    /\ UNCHANGED <<graph_vars, batch_vars, reader_vars>>
    /\ pc = "instance"
    /\ LET name == inp_cards[card_i].parameters.name
           card == CardBuilder_init(inp_cards[card_i])
       IN  /\ inp_cards' = [inp_cards EXCEPT ![card_i] = card]
           /\ IF InstanceOk(card)
              THEN /\ pipeline_instances' =
                          [n \in DOMAIN pipeline_instances \cup {name} |->
                              IF n = name
                              THEN [card |-> card_i, outflows |-> set_outflows(card, <<>>)]
                              ELSE pipeline_instances[n]]
                   /\ pc' = "outflows"
                   /\ events' = Event("OUTPUTS_RECORDED")
                   /\ UNCHANGED pipe_err
              ELSE /\ Raise("AssertionError")
                   /\ UNCHANGED <<pipeline_instances, events>>
    /\ UNCHANGED <<pipeline_workflows, sink_directory,
                   report_body, html_written, card_i, parsed_cards>>

\* line 131
SetOutflows ==
    /\ UNCHANGED <<graph_vars, batch_vars, reader_vars>>
    /\ pc = "outflows"
    /\ LET card == inp_cards[card_i]
           name == card.parameters.name
       IN  pipeline_instances' = [pipeline_instances EXCEPT
               ![name].outflows = set_outflows(card, sink_directory)]
    /\ pc' = "build"
    /\ UNCHANGED <<inp_cards, pipeline_workflows, sink_directory, report_body,
                   html_written, card_i, pipe_err, events, parsed_cards>>

\* line 132: the step's graph is built, or the workflow constructor raises
BuildGraph ==
    /\ UNCHANGED <<graph_vars, batch_vars, reader_vars>>
    /\ pc = "build"
    /\ \E ok \in BOOLEAN :
        IF ok
        THEN LET name == inp_cards[card_i].parameters.name
             IN  /\ pipeline_workflows' =
                        [n \in DOMAIN pipeline_workflows \cup {name} |->
                            IF n = name THEN [card |-> card_i, ran |-> FALSE]
                            ELSE pipeline_workflows[n]]
                 /\ pc' = "run"
                 /\ events' = Event("GRAPH_BUILT")
                 /\ UNCHANGED pipe_err
        ELSE /\ Raise("BuildError")
             /\ UNCHANGED <<pipeline_workflows, events>>
    /\ UNCHANGED <<inp_cards, pipeline_instances, sink_directory, report_body,
                   html_written, card_i, parsed_cards>>

\* line 133: the graph runs, or a node of it fails
RunGraph ==
    /\ UNCHANGED <<graph_vars, batch_vars, reader_vars>>
    /\ pc = "run"
    /\ \E ok \in BOOLEAN :
        IF ok
        THEN LET name == inp_cards[card_i].parameters.name
             IN  /\ pipeline_workflows' = [pipeline_workflows EXCEPT ![name].ran = TRUE]
                 /\ pc' = "report"
                 /\ events' = Event("EXECUTED")
                 /\ UNCHANGED pipe_err
        ELSE /\ Raise("ExecutionError")
             /\ UNCHANGED <<pipeline_workflows, events>>
    /\ UNCHANGED <<inp_cards, pipeline_instances, sink_directory, report_body,
                   html_written, card_i, parsed_cards>>

\* lines 134-137
IntegrateReport ==
    /\ UNCHANGED <<graph_vars, batch_vars, reader_vars>>
    /\ pc = "report"
    /\ LET name == inp_cards[card_i].parameters.name
           outs == pipeline_instances[name].outflows
       IN  IF HasKey(outs, <<"report">>)
           THEN /\ report_body' = Append(report_body,
                                         [report |-> Lookup(outs, <<"report">>), instance_name |-> name])
                /\ events' = Event("REPORTED")
                /\ Advance
                /\ UNCHANGED pipe_err
           ELSE /\ Raise("KeyError")
                /\ UNCHANGED <<report_body, events, card_i>>
    /\ UNCHANGED <<inp_cards, pipeline_instances, pipeline_workflows,
                   sink_directory, html_written, parsed_cards>>

\* line 140
WriteHtml ==
    /\ UNCHANGED <<graph_vars, batch_vars, reader_vars>>
    /\ pc = "write"
    /\ html_written' = html_written + 1
    /\ pc' = "done"
    /\ events' = Append(events, [ev |-> "WRITTEN", card |-> 0])
    /\ UNCHANGED <<inp_cards, pipeline_instances, pipeline_workflows,
                   sink_directory, report_body, card_i, pipe_err, parsed_cards>>

\* Pipeline.__init__ for a deck that parses to cards
NewPipeline(cards) ==
    /\ inp_cards = cards
    /\ parsed_cards = cards
    /\ pipeline_instances = <<>>
    /\ pipeline_workflows = <<>>
    /\ sink_directory = <<"cwd">>
    /\ report_body = <<>>
    /\ html_written = 0
    /\ pc = "start"
    /\ card_i = 0
    /\ pipe_err = "none"
    /\ events = <<>>

PipeIdle ==
    /\ inp_cards = <<>>
    /\ parsed_cards = <<>>
    /\ pipeline_instances = <<>>
    /\ pipeline_workflows = <<>>
    /\ sink_directory = <<"cwd">>
    /\ report_body = <<>>
    /\ html_written = 0
    /\ pc = "idle"
    /\ card_i = 0
    /\ pipe_err = "none"
    /\ events = <<>>

BatchIdle ==
    /\ inps = <<>>
    /\ inp_i = 0
    /\ pipelines = <<>>
    /\ failed_runs = <<>>
    /\ attempts = <<>>

(***************************************************************************)
(* Batch driver: run.py __main__, lines 342-358                            *)
(***************************************************************************)
MaxDecks == 2

\* the deck files of a batch: one that can complete, one whose step has no
\* report output, one with a reference to a step that never ran, one that
\* read_input_deck rejects
DeckFiles ==
    [good |-> [parses |-> TRUE,
               cards |-> << [cardname |-> <<"*", "tacs">>,
                             parameters |-> [name |-> <<"A">>, report |-> PyTrue],
                             datalines |-> << << <<"f">> >>, << <<"g">> >> >>] >>],
     noreport |-> [parses |-> TRUE,
                   cards |-> << [cardname |-> <<"*", "import">>,
                                 parameters |-> [name |-> <<"A">>, report |-> PyFalse],
                                 datalines |-> << << <<"f">> >> >>] >>],
     unbound |-> [parses |-> TRUE,
                  cards |-> << [cardname |-> <<"*", "tacs">>,
                                parameters |-> [name |-> <<"B">>, report |-> PyTrue],
                                datalines |-> << << <<"@", "A">> >>, << <<"g">> >> >>] >>],
     broken |-> [parses |-> FALSE, cards |-> <<>>]]

DeckPaths == DOMAIN DeckFiles

\* line 345 and line 348: the next deck is taken and its Pipeline constructed
BatchBegin ==
    /\ pc = "idle"
    /\ inp_i < Len(inps)
    /\ inp_i' = inp_i + 1
    /\ attempts' = Append(attempts, inp_i + 1)
    /\ LET file == DeckFiles[inps[inp_i + 1]]
       IN  IF file.parses
           THEN /\ inp_cards' = file.cards
                /\ parsed_cards' = file.cards
                /\ pc' = "start"
                /\ pipe_err' = "none"
           ELSE /\ inp_cards' = <<>>
                /\ parsed_cards' = <<>>
                /\ pc' = "failed"
                /\ pipe_err' = "InputDeckSyntaxError"
    /\ pipeline_instances' = <<>>
    /\ pipeline_workflows' = <<>>
    /\ sink_directory' = <<"cwd">>
    /\ report_body' = <<>>
    /\ html_written' = 0
    /\ card_i' = 0
    /\ events' = <<>>
    /\ UNCHANGED <<inps, pipelines, failed_runs, graph_vars, reader_vars>>

\* line 350
BatchAppend ==
    /\ inp_i > 0
    /\ pc = "done"
    /\ pipelines' = Append(pipelines, [idx |-> inp_i, input_deck_path |-> inps[inp_i]])
    /\ pc' = "idle"
    /\ UNCHANGED <<inps, inp_i, failed_runs, attempts, graph_vars, reader_vars,
                   inp_cards, pipeline_instances, pipeline_workflows, sink_directory,
                   report_body, html_written, card_i, pipe_err, events, parsed_cards>>

\* BatchExcept with the loop left after the first failure
BatchExceptAborting ==
    /\ inp_i > 0
    /\ pc = "failed"
    /\ failed_runs' = Append(failed_runs, inps[inp_i])
    /\ pc' = "idle"
    /\ inp_i' = Len(inps)
    /\ UNCHANGED <<inps, pipelines, attempts, graph_vars, reader_vars,
                   inp_cards, pipeline_instances, pipeline_workflows, sink_directory,
                   report_body, html_written, card_i, pipe_err, events, parsed_cards>>

\* lines 352-355
BatchExcept ==
    /\ inp_i > 0
    /\ pc = "failed"
    /\ failed_runs' = Append(failed_runs, inps[inp_i])
    /\ pc' = "idle"
    /\ UNCHANGED <<inps, inp_i, pipelines, attempts, graph_vars, reader_vars,
                   inp_cards, pipeline_instances, pipeline_workflows, sink_directory,
                   report_body, html_written, card_i, pipe_err, events, parsed_cards>>

(***************************************************************************)
(* Card construction (input_deck_reader.Card)                              *)
(*                                                                         *)
(* A python int n is the one-symbol sequence <<"int n">>, a python str is  *)
(* the sequence of its symbols; " " is a whitespace character, "=" and     *)
(* "," the characters the code splits on.  A numeral ("3", "5", "7") is    *)
(* one symbol.  `assert` statements are executed when the interpreter's    *)
(* __debug__ is true and compiled away under python -O.                    *)
(***************************************************************************)
\* d[k] = v on a dict kept as its items in insertion order
DictSet(d, k, v) ==
    IF HasKey(d, k) THEN [j \in 1..Len(d) |-> IF d[j][1] = k THEN <<k, v>> ELSE d[j]]
    ELSE Append(d, <<k, v>>)

\* the keys of a dict
Keys(d) == {d[j][1] : j \in 1..Len(d)}

\* dict(pairs)
RECURSIVE DictOf(_, _)
DictOf(pairs, d) ==
    IF Len(pairs) = 0 THEN d
    ELSE DictOf(Tail(pairs), DictSet(d, Head(pairs)[1], Head(pairs)[2]))

\* Card.parameters setter for the tuple Card.__init__ packs: every item
\* must split on '=' into exactly two pieces
parameters_setter(all_paras) ==
    IF \E j \in 1..Len(all_paras) : Len(Split(all_paras[j], "=")) # 2
    THEN [err |-> "InputDeckSyntaxError", dict |-> <<>>]
    ELSE [err |-> "none",
          dict |-> DictOf([j \in 1..Len(all_paras) |-> Split(all_paras[j], "=")], <<>>)]

\* the records of cards/default_parameters/<step type>.json: a record is
\* the sequence of its (key, python type of the value, value) entries
TacsDefaults ==
    << << <<<<"type">>, "str", <<"deterministic">>>>,
          <<<<"name">>, "str", <<"tacs">>>>,
          <<<<"units">>, "list", << <<"uci">>, <<"bq">> >> >>,
          <<<<"report">>, "bool", PyTrue>>,
          <<<<"n">>, "int", <<"int 3">>>> >>,
       << <<<<"type">>, "str", <<"other">>>>,
          <<<<"name">>, "str", <<"tacs">>>>,
          <<<<"report">>, "bool", PyFalse>> >> >>

ImportDefaults ==
    << << <<<<"name">>, "str", <<"import">>>>,
          <<<<"report">>, "bool", PyFalse>> >> >>

SinkDefaults ==
    << << <<<<"name">>, "str", <<"sink">>>> >> >>

DefaultCatalog == << <<<<"tacs">>, TacsDefaults>>, <<<<"import">>, ImportDefaults>>,
                     <<<<"sink">>, SinkDefaults>> >>

\* the entry of key k in a record
Entry(rec, k) == rec[CHOOSE j \in 1..Len(rec) : rec[j][1] = k]

\* cardname[1:].replace(' ', '_')
JsonName(cardname) ==
    [j \in 1..Len(DropFirst(cardname)) |->
        IF DropFirst(cardname)[j] = " " THEN "_" ELSE DropFirst(cardname)[j]]

\* LoopExhausted falling back to the first record
LoopExhaustedFirst(data) == data[1]

\* line 248: the loop ended without a return
LoopExhausted(data) == <<>>

\* the loop of lines 241-244 from record i on, and the two ways out of it
RECURSIVE LoadFrom(_, _, _)
LoadFrom(data, i, user) ==
    IF i > Len(data) THEN LoopExhausted(data)
    ELSE IF ~HasKey(data[i], <<"type">>) \/ ~HasKey(user, <<"type">>) THEN data[1]
    ELSE IF Entry(data[i], <<"type">>)[2] = "str"
            /\ Entry(data[i], <<"type">>)[3] = Lookup(user, <<"type">>) THEN data[i]
    ELSE LoadFrom(data, i + 1, user)

\* Card._load_defaults
_load_defaults(cardname, user) ==
    IF ~HasKey(DefaultCatalog, JsonName(cardname))
    THEN [err |-> "FileNotFoundError", rec |-> <<>>]
    ELSE [err |-> "none", rec |-> LoadFrom(Lookup(DefaultCatalog, JsonName(cardname)), 1, user)]

\* int(x) of a str: the numeral between surrounding whitespace
Numerals == {"3", "5", "7"}
IsNumeral(s) == Len(Strip(s)) = 1 /\ Strip(s)[1] \in Numerals
PyInt(s) ==
    CASE Strip(s)[1] = "3" -> <<"int 3">>
      [] Strip(s)[1] = "5" -> <<"int 5">>
      [] Strip(s)[1] = "7" -> <<"int 7">>

\* int(x) of a bool
BoolAsInt(b) == IF b = PyTrue THEN <<"int 1">> ELSE <<"int 0">>

\* Card.check_parameter_syntax, one key of the loop with the mapping built
\* so far: the InputDeckSyntaxError of lines 275, 283, 296 and 298 is
\* built and dropped, so the loop goes on without the key
CheckKey(new_parameters, entry, user) ==
    LET key == entry[1]
        given == HasKey(user, key)
        actual_value == IF given THEN Lookup(user, key) ELSE entry[3]
    IN  IF entry[2] \in {"int", "bool"}
        THEN IF given
             THEN IF IsNumeral(actual_value)
                  THEN DictSet(new_parameters, key, PyInt(actual_value))
                  ELSE new_parameters
             ELSE DictSet(new_parameters, key,
                          IF entry[2] = "bool" THEN BoolAsInt(actual_value) ELSE actual_value)
        ELSE IF entry[2] = "list"
        THEN IF ~given THEN DictSet(new_parameters, key, actual_value[1])
             ELSE IF InSeq(actual_value, entry[3])
             THEN DictSet(new_parameters, key, actual_value)
             ELSE new_parameters
        ELSE DictSet(new_parameters, key, actual_value)

RECURSIVE CheckFrom(_, _, _, _)
CheckFrom(default_parameters, i, user, new_parameters) ==
    IF i > Len(default_parameters) THEN new_parameters
    ELSE CheckFrom(default_parameters, i + 1, user,
                   CheckKey(new_parameters, default_parameters[i], user))

check_parameter_syntax(default_parameters, user) ==
    CheckFrom(default_parameters, 1, user, <<>>)

NoCard == [cardname |-> <<>>, parameters |-> <<>>, datalines |-> <<>>]

\* the assert of lines 180-185: its right-hand side is a tuple whose second
\* item indexes the keys the new mapping has beyond the record's
AssertLength(new_parameters, default_parameters) ==
    IF Keys(new_parameters) \ Keys(default_parameters) = {} THEN "IndexError"
    ELSE "AssertionError"

\* Card.__init__(cardname, *all_paras): the error it raises or the Card
CardInit(cardname, all_paras, debug) ==
    LET set == parameters_setter(all_paras)
        loaded == _load_defaults(cardname, set.dict)
        new_parameters == check_parameter_syntax(loaded.rec, set.dict)
    IN  IF set.err # "none"
        THEN [err |-> set.err, card |-> NoCard, user |-> <<>>, defaults |-> <<>>]
        ELSE IF loaded.err # "none"
        THEN [err |-> loaded.err, card |-> NoCard, user |-> set.dict, defaults |-> <<>>]
        ELSE IF debug
        THEN [err |-> AssertLength(new_parameters, loaded.rec), card |-> NoCard,
              user |-> set.dict, defaults |-> loaded.rec]
        ELSE [err |-> "none",
              card |-> [cardname |-> cardname, parameters |-> new_parameters,
                        datalines |-> <<>>],
              user |-> set.dict, defaults |-> loaded.rec]

\* add_dataline with the fields left as split
add_dataline_untrimmed(card, line) ==
    [card EXCEPT !.datalines = Append(@, Split(Strip(line), ","))]

\* Card.add_dataline of a str
add_dataline(card, line) ==
    [card EXCEPT !.datalines =
        Append(@, [j \in 1..Len(Split(Strip(line), ",")) |->
                      Strip(Split(Strip(line), ",")[j])])]

MaxParas == 2

CardNames == {<<"*", "tacs">>, <<"*", "import">>, <<"*", "bogus">>}
ParaChoices == {<<"name", "=", "x">>, <<"bogus", "=", "3">>,
                <<"type", "=", "other">>, <<"type", "=", "zzz">>,
                <<"n", "=", "7">>, <<"n", "=", "abc">>,
                <<"report", "=", "yes">>, <<"report", "=", "no">>,
                <<"report", "=", "maybe">>,
                <<"units", "=", "bq">>, <<"units", "=", "zz">>,
                <<"name">>}

\* the call Card(cardname, *all_paras)
Card_init ==
    /\ ctor_pc = "call"
    /\ LET r == CardInit(ctor_cardname, ctor_paras, __debug__)
       IN  /\ ctor_pc' = IF r.err = "none" THEN "returned" ELSE "raised"
           /\ ctor_err' = r.err
           /\ ctor_card' = r.card
           /\ ctor_user' = r.user
           /\ ctor_defaults' = r.defaults
    /\ UNCHANGED <<__debug__, ctor_cardname, ctor_paras>>
    /\ UNCHANGED <<graph_vars, pipe_vars, batch_vars, read_vars, other_vars>>

CtorIdle ==
    /\ ctor_pc = "idle"
    /\ ctor_cardname = <<>>
    /\ ctor_paras = <<>>
    /\ ctor_err = "none"
    /\ ctor_card = NoCard
    /\ ctor_user = <<>>
    /\ ctor_defaults = <<>>

(***************************************************************************)
(* Deck reader (InputDeck.read_inp)                                        *)
(*                                                                         *)
(* A line is the sequence of its symbols without the newline.  "*", "#",   *)
(* ",", "=", " " and "$" are the characters the code tests for; "${x}"     *)
(* and "${u}" are placeholders named x and u; upper-case symbols have a    *)
(* lower-case form.                                                        *)
(***************************************************************************)
commenter == "#"

\* str.startswith('*' + word)
StartsWithStar(s, word) == Len(s) >= 2 /\ s[1] = "*" /\ s[2] = word

\* the name a placeholder symbol carries
PlaceholderName(c) == IF c = "${x}" THEN <<"x">> ELSE <<"u">>

\* string.Template(s).substitute(mapping): the first placeholder without a
\* value raises KeyError, a lone '$' ValueError
RECURSIVE Substitute(_, _)
Substitute(s, mapping) ==
    IF Len(s) = 0 THEN [err |-> "none", out |-> <<>>]
    ELSE IF Head(s) = "$" THEN [err |-> "ValueError", out |-> <<>>]
    ELSE IF Head(s) \in {"${x}", "${u}"} /\ ~HasKey(mapping, PlaceholderName(Head(s)))
    THEN [err |-> "KeyError", out |-> <<>>]
    ELSE LET rest == Substitute(Tail(s), mapping)
             here == IF Head(s) \in {"${x}", "${u}"}
                     THEN Lookup(mapping, PlaceholderName(Head(s)))
                     ELSE <<Head(s)>>
         IN  IF rest.err # "none" THEN rest
             ELSE [err |-> "none", out |-> here \o rest.out]

\* exec(line) of read_parameter_card: `name = numeral` binds the name, an
\* empty line and a comment do nothing, anything else does not run
NotSpace(c) == c # " "
ExecLine(locals, line) ==
    LET tokens == SelectSeq(line, NotSpace)
    IN  IF Len(tokens) = 0 \/ tokens[1] = commenter
        THEN [err |-> "none", locals |-> locals]
        ELSE IF Len(tokens) = 3 /\ tokens[1] \in {"x", "u"} /\ tokens[2] = "="
                /\ tokens[3] \in Numerals
        THEN [err |-> "none", locals |-> DictSet(locals, <<tokens[1]>>, <<tokens[3]>>)]
        ELSE IF tokens[1] \in {"${x}", "${u}", "$", "*", "=", ","}
        THEN [err |-> "SyntaxError", locals |-> locals]
        ELSE [err |-> "NameError", locals |-> locals]

RECURSIVE ExecFrom(_, _, _)
ExecFrom(lines, i, locals) ==
    IF i > Len(lines) THEN [err |-> "none", locals |-> locals]
    ELSE LET r == ExecLine(locals, lines[i])
         IN  IF r.err # "none" THEN r ELSE ExecFrom(lines, i + 1, r.locals)

\* read_parameter_card: `del _` has no `_` to delete when there is no line
read_parameter_card(all_the_parameter_lines) ==
    IF Len(all_the_parameter_lines) = 0
    THEN [err |-> "UnboundLocalError", locals |-> <<>>]
    ELSE ExecFrom(all_the_parameter_lines, 1, <<>>)

\* Card(*[itm.strip() for itm in line.lower().split(',')])
CardOfLine(line, debug) ==
    LET items == [j \in 1..Len(Split(Lower(line), ",")) |->
                     Strip(Split(Lower(line), ",")[j])]
    IN  CardInit(Head(items), Tail(items), debug)

\* self.cards[-1].add_dataline(line)
AddToLastCard(cards, line) ==
    [cards EXCEPT ![Len(cards)] = add_dataline(@, line)]

\* how read_inp ends: at is the line it ended on, Len(f) + 1 the end of file
Returned(cards, at) == [outcome |-> "returned", cards |-> cards, at |-> at]
Raised(err, cards, at) == [outcome |-> err, cards |-> cards, at |-> at]

\* EndOfFile with the cards read so far handed back
EndOfFileReturning(cards, at) == Returned(cards, at)

\* lines 117-119: the file is consumed
EndOfFile(cards, at) == Raised("InputDeckSyntaxError", cards, at)

\* the loops of read_inp from line i of the file on: mode is the loop the
\* iterator is in ("seek" before the start marker, "body" after it,
\* "parameter" inside a *parameter block)
RECURSIVE ReadFrom(_, _, _, _, _, _, _)
ReadFrom(f, i, mode, user_defined_parameters, parameter_lines, cards, debug) ==
    IF i > Len(f) THEN EndOfFile(cards, i)
    ELSE IF mode = "seek"
    THEN \* line 75
         IF StartsWithStar(Strip(Lower(f[i])), "start")
         THEN ReadFrom(f, i + 1, "body", user_defined_parameters, <<>>, cards, debug)
         ELSE ReadFrom(f, i + 1, "seek", user_defined_parameters, <<>>, cards, debug)
    ELSE IF mode = "body"
    THEN \* lines 77-115
         LET sub == Substitute(Strip(f[i]), user_defined_parameters)
             line == sub.out
             made == CardOfLine(line, debug)
         IN  IF sub.err # "none" THEN Raised(sub.err, cards, i)
             ELSE IF StartsWithStar(Lower(line), "end") THEN Returned(cards, i)
             ELSE IF Len(line) = 0 \/ StartsWith(Lower(line), commenter)
             THEN ReadFrom(f, i + 1, "body", user_defined_parameters, <<>>, cards, debug)
             ELSE IF StartsWithStar(Lower(line), "parameter")
             THEN ReadFrom(f, i + 1, "parameter", user_defined_parameters, <<>>, cards, debug)
             ELSE IF StartsWith(line, "*")
             THEN IF made.err # "none" THEN Raised(made.err, cards, i)
                  ELSE ReadFrom(f, i + 1, "body", user_defined_parameters, <<>>,
                                Append(cards, made.card), debug)
             ELSE IF Len(cards) = 0 THEN Raised("IndexError", cards, i)
             ELSE ReadFrom(f, i + 1, "body", user_defined_parameters, <<>>,
                           AddToLastCard(cards, line), debug)
    ELSE \* lines 90-104, inside a *parameter block
         LET line == Strip(f[i])
             ran == read_parameter_card(parameter_lines)
             sub == Substitute(Strip(line), ran.locals)
             made == CardOfLine(sub.out, debug)
         IN  IF ~StartsWith(line, "*")
             THEN ReadFrom(f, i + 1, "parameter", user_defined_parameters,
                           Append(parameter_lines, line), cards, debug)
             ELSE IF ran.err # "none" THEN Raised(ran.err, cards, i)
             ELSE IF sub.err # "none" THEN Raised(sub.err, cards, i)
             ELSE IF made.err # "none" THEN Raised(made.err, cards, i)
             ELSE ReadFrom(f, i + 1, "body", ran.locals, <<>>,
                           Append(cards, made.card), debug)

\* InputDeck.read_inp on the lines of the file
read_inp(f, debug) == ReadFrom(f, 1, "seek", <<>>, <<>>, <<>>, debug)

MaxLines == 3

StartLine == <<" ", "*", "START">>
EndLine == <<"*", "end">>
BodyLines == {<<"*", "END">>, <<" ">>, <<"#", "c">>, <<"#", "${u}">>,
              <<"*", "tacs", ",", " ", "name", "=", "B">>, <<"*", "import">>,
              <<" ", "f", " ", ",", "g">>, <<"${x}">>,
              <<"*", "parameter">>, <<"x", "=", "5">>}
Heads == {<<>>, <<StartLine>>, << <<"*", "tacs">>, StartLine >>}
Tails == {<<>>, <<EndLine>>}
Texts == {h \o b \o t : h \in Heads, b \in SeqsUpTo(BodyLines, MaxLines), t \in Tails}

\* InputDeck.__init__ calling read_inp
ReadDeck ==
    /\ read_pc = "call"
    /\ LET r == read_inp(text, __debug__)
       IN  /\ read_pc' = IF r.outcome = "returned" THEN "returned" ELSE "raised"
           /\ read_err' = IF r.outcome = "returned" THEN "none" ELSE r.outcome
           /\ deck_cards' = r.cards
           /\ read_at' = r.at
    /\ UNCHANGED <<__debug__, text>>
    /\ UNCHANGED <<graph_vars, pipe_vars, batch_vars, ctor_vars, other_vars>>

ReadIdle ==
    /\ read_pc = "idle"
    /\ text = <<>>
    /\ read_err = "none"
    /\ deck_cards = <<>>
    /\ read_at = 0

(***************************************************************************)
(* CardBuilder checks (picnic.cards.card_builder)                          *)
(*                                                                         *)
(* A dataline is the sequence of its fields.  The interpreter executes     *)
(* the assert statements.                                                  *)
(***************************************************************************)
MaxDatalines == 2

BuilderLines == {<< <<"f">> >>, << <<"f">>, <<"g">> >>}
CheckerStrings ==
    {<<o, d>> : o \in CheckerOperators, d \in {"0", "1", "2"}}
        \cup {<<"!", "1">>, PyNone}
ForceValues ==
    {PyFalse, PyTrue, PyNone, <<"0">>, <<"3">>, <<" ", "5">>, <<" ", "0">>,
     <<"-", "3">>, <<"x">>, <<"3", ".", "5">>, <<>>,
     <<"int 0">>, <<"int 3">>, <<"int -3">>}

\* a step class calling self._check_dataline_syntax(expected_lines,
\* expected_in_lines) in its constructor
CheckDatalines ==
    /\ bld_pc = "built"
    /\ LET r == _check_dataline_syntax(bld_datalines, expected_lines,
                                       expected_in_lines, __debug__)
       IN  /\ bld_pc' = IF r.err = "none" THEN "checked" ELSE "raised"
           /\ bld_err' = r.err
           /\ bld_msg' = r.msg
    /\ UNCHANGED <<bld_datalines, expected_lines, expected_in_lines,
                   force_val, force_out>>
    /\ UNCHANGED <<graph_vars, pipe_vars, batch_vars, __debug__, ctor_vars,
                   read_vars, addcard_vars, pantry_vars, scan_vars>>

\* the constructor going on to self._force_parameter_to_integer(val, name)
ForceInteger ==
    /\ bld_pc = "checked"
    /\ \E val \in ForceValues :
          LET r == _force_parameter_to_integer(val, __debug__)
          IN  /\ bld_pc' = IF r.err = "none" THEN "forced" ELSE "force raised"
              /\ bld_err' = r.err
              /\ force_val' = val
              /\ force_out' = r.val
    /\ UNCHANGED <<bld_datalines, expected_lines, expected_in_lines, bld_msg>>
    /\ UNCHANGED <<graph_vars, pipe_vars, batch_vars, __debug__, ctor_vars,
                   read_vars, addcard_vars, pantry_vars, scan_vars>>

BuilderIdle ==
    /\ bld_pc = "idle"
    /\ bld_datalines = <<>>
    /\ expected_lines = PyNone
    /\ expected_in_lines = PyNone
    /\ bld_err = "none"
    /\ bld_msg = <<>>
    /\ force_val = PyNone
    /\ force_out = 0

(***************************************************************************)
(* InputDeck.add_card                                                      *)
(***************************************************************************)
MaxAddCards == 2

AddParameters == {<<>>, << <<"name", "=", "x">> >>, << <<"name">> >>}
AddDatalines == {<<>>, << <<"f", ",", "g">> >>,
                 << <<"f", ",", "g">>, <<" ", "h">> >>}

\* the attribute add_dataline of a Card: the method of the class, or the
\* value an assignment to the attribute stored on the instance
BoundMethod == [method |-> TRUE, value |-> <<>>]
Stored(v) == [method |-> FALSE, value |-> v]

\* Card(cardname, parameters), line 132: *parameters packs the tuple into
\* a 1-tuple, the setter's AttributeError branch (line 204) takes
\* all_paras[0], and a ValueError raised in that branch is not caught
CardOfPacked(cardname, parameters, debug) ==
    LET r == CardInit(cardname, parameters, debug)
    IN  IF parameters_setter(parameters).err # "none"
        THEN [r EXCEPT !.err = "ValueError"]
        ELSE r

\* the loop of lines 133-134 on the appended Card: every pass assigns the
\* dataline to the attribute add_dataline
AssignDatalines(datalines) ==
    IF Len(datalines) = 0 THEN BoundMethod ELSE Stored(datalines[Len(datalines)])

NoCall == [cardname |-> <<>>, parameters |-> <<>>, datalines |-> <<>>,
           before |-> <<>>]

\* InputDeck.add_card(cardname, parameters, datalines)
add_card ==
    /\ read_pc = "returned"
    /\ add_n < MaxAddCards
    /\ \E cardname \in CardNames, parameters \in AddParameters,
          datalines \in AddDatalines :
          LET r == CardOfPacked(cardname, parameters, __debug__)
          IN  /\ add_call' = [cardname |-> cardname, parameters |-> parameters,
                              datalines |-> datalines, before |-> deck_cards]
              /\ add_err' = r.err
              /\ IF r.err = "none"
                 THEN /\ deck_cards' = Append(deck_cards, r.card)
                      /\ add_attr' = AssignDatalines(datalines)
                 ELSE UNCHANGED <<deck_cards, add_attr>>
    /\ add_n' = add_n + 1
    /\ UNCHANGED <<text, read_pc, read_err, read_at>>
    /\ UNCHANGED <<graph_vars, pipe_vars, batch_vars, __debug__, ctor_vars,
                   builder_vars, pantry_vars, scan_vars>>

AddCardIdle ==
    /\ add_n = 0
    /\ add_call = NoCall
    /\ add_err = "none"
    /\ add_attr = BoundMethod

(***************************************************************************)
(* The pantry (picnic.pantry): save_input_deck and the -LOAD- event        *)
(*                                                                         *)
(* "/" is the path separator of a file name.                               *)
(***************************************************************************)
MaxSaved == 2

\* os.path.dirname(filename)
Slashes(path) == {i \in 1..Len(path) : path[i] = "/"}
Dirname(path) ==
    IF Slashes(path) = {} THEN <<>>
    ELSE SubSeq(path, 1, (CHOOSE i \in Slashes(path) :
                             \A j \in Slashes(path) : j <= i) - 1)

\* isinstance(v, str)
IsStrValue(v) == v \notin ({PyTrue, PyFalse, PyNone} \cup IntObjects)

\* lines 438-441: '  ' + cardname and param + '=' + value for every
\* parameter, joined by ', '
CardLine(card) ==
    JoinWith(<<",", " ">>,
             << <<" ", " ">> \o card.cardname >>
                 \o [j \in 1..Len(card.parameters) |->
                        card.parameters[j][1] \o <<"=">> \o card.parameters[j][2]])

\* lines 442-443
DataLine(dataline) == <<" ", " ", " ", " ">> \o JoinWith(<<",", " ">>, dataline)

\* the lines the loop of lines 437-443 writes
RECURSIVE CardsText(_)
CardsText(cards) ==
    IF Len(cards) = 0 THEN <<>>
    ELSE << CardLine(Head(cards)) >>
            \o [j \in 1..Len(Head(cards).datalines) |->
                   DataLine(Head(cards).datalines[j])]
            \o CardsText(Tail(cards))

\* save_input_deck(deck, filename): the lines of the file, or the
\* TypeError of str + non-str at line 440
save_input_deck(cards, file) ==
    IF \E c \in 1..Len(cards) : \E j \in 1..Len(cards[c].parameters) :
           ~IsStrValue(cards[c].parameters[j][2])
    THEN [err |-> "TypeError", text |-> <<>>]
    ELSE [err |-> "none",
          text |-> << <<"*", "start">>, <<" ", " ", "*", "sink">>,
                      <<" ", " ", " ", " ">> \o Dirname(file) >>
                   \o CardsText(cards) \o << <<"*", "end">> >>]

\* the test of line 659 on a card
NotSinkName(card) == Lower(card.cardname) # <<"sink">>

\* the cards a Deck can hold under python -O: as make_card or the reader
\* built them, and with the strings of the parameter window (lines
\* 525-533) in place of their parameters and datalines
MadeCards ==
    {add_dataline(CardInit(<<"*", "import">>, <<>>, FALSE).card, <<"f", ",", "g">>),
     CardInit(<<"*", "tacs">>, << <<"name", "=", "x">> >>, FALSE).card}
EditedCards ==
    {[cardname |-> <<"*", "import">>,
      parameters |-> << << <<"name">>, n >>, << <<"report">>, <<"3">> >> >>,
      datalines |-> << << <<"f">> >> >>] : n \in {<<"B">>, <<"x">>}}
PantryDecks(debug) ==
    IF debug THEN {<<>>}
    ELSE SeqsUpTo(MadeCards \cup EditedCards, MaxSaved)
FileNames == {<<"deck.inp">>, <<"d", "/", "deck.inp">>,
              <<"d", "/", "e", "/", "deck.inp">>}

\* the -SAVE- event, line 685
SaveDeck ==
    /\ pantry_pc = "deck"
    /\ LET r == save_input_deck(pantry_cards, filename)
       IN  /\ pantry_pc' = IF r.err = "none" THEN "saved" ELSE "save raised"
           /\ pantry_err' = r.err
           /\ saved_text' = r.text
    /\ UNCHANGED <<pantry_cards, filename, loaded_cards>>
    /\ UNCHANGED <<graph_vars, pipe_vars, batch_vars, __debug__, ctor_vars,
                   read_vars, builder_vars, addcard_vars, scan_vars>>

\* the -LOAD- event of a new pantry on the saved file, lines 655-660:
\* read_input_deck, then every card that passes the test of line 659 is
\* added to the Deck
LoadDeck ==
    /\ pantry_pc = "saved"
    /\ LET r == read_inp(saved_text, __debug__)
       IN  IF r.outcome = "returned"
           THEN /\ pantry_pc' = "loaded"
                /\ loaded_cards' = SelectSeq(r.cards, NotSinkName)
                /\ UNCHANGED pantry_err
           ELSE /\ pantry_pc' = "load raised"
                /\ pantry_err' = r.outcome
                /\ UNCHANGED loaded_cards
    /\ UNCHANGED <<pantry_cards, filename, saved_text>>
    /\ UNCHANGED <<graph_vars, pipe_vars, batch_vars, __debug__, ctor_vars,
                   read_vars, builder_vars, addcard_vars, scan_vars>>

PantryIdle ==
    /\ pantry_pc = "idle"
    /\ pantry_cards = <<>>
    /\ filename = <<>>
    /\ saved_text = <<>>
    /\ pantry_err = "none"
    /\ loaded_cards = <<>>

(***************************************************************************)
(* Deck.check_for_variables (picnic.pantry)                                *)
(*                                                                         *)
(* Here a symbol is one character; positions count from 0 as in python.    *)
(***************************************************************************)
MaxBrace == 3

\* str.find(c, start): the lowest position from start on, -1 when none
Find(str, c, start) ==
    LET hits == {i \in start..(Len(str) - 1) : str[i + 1] = c}
    IN  IF hits = {} THEN 0 - 1
        ELSE CHOOSE i \in hits : \A j \in hits : i <= j

\* str[a:b] for a, b >= 0
Slice(str, a, b) == SubSeq(str, a + 1, b)

\* the strings the two inner for loops visit, in order: dataline[0] of
\* every dataline, then every parameter value, card after card
RECURSIVE ScanList(_)
ScanList(cards) ==
    IF Len(cards) = 0 THEN <<>>
    ELSE [j \in 1..Len(Head(cards).datalines) |-> Head(cards).datalines[j][1]]
            \o [j \in 1..Len(Head(cards).parameters) |-> Head(cards).parameters[j][2]]
            \o ScanList(Tail(cards))

\* lines 214 / 226 with line 215 / 227: the for loops take the next string
\* and look for its first '{'; a parameter value that is no str has no
\* find
ScanFor ==
    /\ scan_pc = "for"
    /\ IF scan_item + 1 > Len(ScanList(pantry_cards))
       THEN /\ scan_pc' = "done"
            /\ UNCHANGED <<scan_item, scan_idx, scan_err>>
       ELSE LET str == ScanList(pantry_cards)[scan_item + 1]
            IN  /\ scan_item' = scan_item + 1
                /\ IF IsStrValue(str)
                   THEN /\ scan_idx' = Find(str, "{", 0)
                        /\ scan_pc' = "while"
                        /\ UNCHANGED scan_err
                   ELSE /\ scan_pc' = "raised"
                        /\ scan_err' = "AttributeError"
                        /\ UNCHANGED scan_idx
    /\ UNCHANGED <<variables, pantry_vars>>
    /\ UNCHANGED <<graph_vars, pipe_vars, batch_vars, __debug__, ctor_vars,
                   read_vars, builder_vars, addcard_vars>>

\* the test of the while loop, lines 216 and 228
ScanWhile ==
    /\ scan_pc = "while"
    /\ scan_pc' = IF scan_idx >= 0 THEN "body" ELSE "for"
    /\ UNCHANGED <<variables, scan_item, scan_idx, scan_err, pantry_vars>>
    /\ UNCHANGED <<graph_vars, pipe_vars, batch_vars, __debug__, ctor_vars,
                   read_vars, builder_vars, addcard_vars>>

\* one pass of the body of the while loop, lines 217-224 and 229-236
ScanBody ==
    /\ scan_pc = "body"
    /\ LET str == ScanList(pantry_cards)[scan_item]
           end == Find(str, "}", scan_idx) + 1
           variable_name == Slice(str, scan_idx, end)
       IN  /\ variables' = IF HasKey(variables, variable_name) THEN variables
                           ELSE DictSet(variables, variable_name, <<>>)
           /\ scan_idx' = Find(str, "{", end)
    /\ scan_pc' = "while"
    /\ UNCHANGED <<scan_item, scan_err, pantry_vars>>
    /\ UNCHANGED <<graph_vars, pipe_vars, batch_vars, __debug__, ctor_vars,
                   read_vars, builder_vars, addcard_vars>>

\* the strings of up to MaxBrace characters among a, { and }
BraceStrings == SeqsUpTo({"a", "{", "}"}, MaxBrace)
ParameterValues == {<<"a">>, <<"{", "a", "}">>, <<"{">>, <<"int 3">>}

\* a card with the strings of the parameter window
ScanCard(field, value) ==
    [cardname |-> <<"*", "import">>,
     parameters |-> << << <<"name">>, value >> >>,
     datalines |-> << <<field>> >>]

ScanIdle ==
    /\ variables = <<>>
    /\ scan_pc = "idle"
    /\ scan_item = 0
    /\ scan_idx = 0
    /\ scan_err = "none"

OthersIdle ==
    /\ BuilderIdle
    /\ AddCardIdle
    /\ PantryIdle
    /\ ScanIdle

\* the reader and the Card constructor at rest
ReaderIdle ==
    /\ __debug__ = TRUE
    /\ CtorIdle
    /\ ReadIdle
    /\ OthersIdle

(***************************************************************************)
(* Properties of the node graph builder                                    *)
(***************************************************************************)
\* a reference token: a string that starts with '@'
IsRef(v) == IsStr(v) /\ Len(v) > 0 /\ v[1] = "@"

\* the producer a reference token names: what stands between '@' and the
\* first '.'
RECURSIVE UpToDot(_)
UpToDot(s) == IF Len(s) = 0 \/ Head(s) = "." THEN <<>> ELSE <<Head(s)>> \o UpToDot(Tail(s))
Producer(v) == UpToDot(Tail(v))

\* the output a token '@producer.output' names: what follows its only '.'
Dots(v) == {i \in 1..Len(v) : v[i] = "."}
OutputNamed(v) == SubSeq(v, (CHOOSE i \in Dots(v) : TRUE) + 1, Len(v))

\* the bindings of the last add_node / add_mapnode call
LastBindings == {last_add.inflows[j] : j \in 1..Len(last_add.inflows)}

BoundAsLiteral(k, v) == [node |-> last_add.node, key |-> k, value |-> v] \in node_inputs
HasEdgeInto(k) == \E e \in connections : e.dst = last_add.node /\ e.inp = k

\* a binding '@producer.output' of the last add whose producer is registered
\* and does not declare the output
NamesUndeclaredOutput(v) ==
    /\ IsRef(v)
    /\ Producer(v) \in DOMAIN all_nodes
    /\ Cardinality(Dots(v)) = 1
    /\ ~InSeq(OutputNamed(v), all_nodes[Producer(v)].outflows)

OmitsOutput(v) ==
    /\ IsRef(v)
    /\ Dots(v) = {}
    /\ Producer(v) \in DOMAIN all_nodes
    /\ Len(all_nodes[Producer(v)].outflows) > 0

\* the edge '@producer.output' makes into input k of the last added node
EdgeFrom(producer, output, k) ==
    [src |-> all_nodes[producer].node, out |-> output,
     dst |-> last_add.node, inp |-> k]

C27_RegistrationIsFinal ==
    [][\A n \in DOMAIN all_nodes :
          n \in DOMAIN all_nodes' /\ all_nodes'[n] = all_nodes[n]]_vars

\* C3 as stated: every recorded edge leaves a node that was registered
\* strictly before the consuming node was added
C3_EdgesGoForward ==
    \A e \in connections : e.src < e.dst

(***************************************************************************)
(* Properties of Pipeline.build_workflow                                   *)
(***************************************************************************)
HasEvent(ev, c) == \E n \in 1..Len(events) : events[n].ev = ev /\ events[n].card = c

AllFields(card) ==
    UNION {{<<j, k>> : k \in 1..Len(card.datalines[j])} : j \in 1..Len(card.datalines)}

\* the token d names a step of the table and, when it names an output, one
\* of the outputs recorded for that step
Resolvable(d, table) ==
    \E n \in DOMAIN table :
        \/ d = <<"@">> \o n /\ Len(table[n].outflows) > 0
        \/ \E x \in 1..Len(table[n].outflows) : d = <<"@">> \o n \o <<".">> \o table[n].outflows[x][1]

\* r is the value recorded for what the token d names: the named output, or
\* the first recorded output when d names the step alone
IsRecordedValue(d, r, table) ==
    \E n \in DOMAIN table :
        \/ d = <<"@">> \o n /\ Len(table[n].outflows) > 0 /\ r = table[n].outflows[1][2]
        \/ \E x \in 1..Len(table[n].outflows) :
              d = <<"@">> \o n \o <<".">> \o table[n].outflows[x][1] /\ r = table[n].outflows[x][2]

FailedInBinding == pc = "failed" /\ card_i > 0 /\ ~HasEvent("BOUND", card_i)

\* C4: right after a card is bound every reference field holds exactly the
\* recorded value it names and every other field is unchanged; a card with
\* a field that names no recorded value is not bound: binding raises and
\* leaves the data lines as they were
C4_ReferencesResolveExactly ==
    /\ pc = "instance" =>
          \A jk \in AllFields(parsed_cards[card_i]) :
              LET d == parsed_cards[card_i].datalines[jk[1]][jk[2]]
                  r == inp_cards[card_i].datalines[jk[1]][jk[2]]
              IN  IF IsRef(d) THEN IsRecordedValue(d, r, pipeline_instances) ELSE r = d
    /\ FailedInBinding =>
          /\ inp_cards[card_i] = parsed_cards[card_i]
          /\ \E jk \in AllFields(parsed_cards[card_i]) :
                LET d == parsed_cards[card_i].datalines[jk[1]][jk[2]]
                IN  IsRef(d) /\ ~Resolvable(d, pipeline_instances)

C4_Witness ==
    /\ pc = "instance"
    /\ card_i = 2
    /\ parsed_cards[2].datalines[1][1] = <<"@", "A">>
    /\ inp_cards[2].datalines[1][1] = <<"cwd", "/", "A", "/", "A", ".", "tsv">>
    /\ Len(pipeline_instances[<<"A">>].outflows) = 2

\* C5 as stated: a step has an entry in the output table only after its
\* graph was built and has executed
C5_EntryOnlyAfterExecution ==
    \A n \in DOMAIN pipeline_instances :
        /\ HasEvent("GRAPH_BUILT", pipeline_instances[n].card)
        /\ HasEvent("EXECUTED", pipeline_instances[n].card)

\* C6 as stated: an entry of the output table recorded by one card is never
\* replaced, changed or removed while a later card is processed
C6_TableAppendOnly ==
    [][\A n \in DOMAIN pipeline_instances :
          pipeline_instances[n].card # card_i'
              => (n \in DOMAIN pipeline_instances' /\ pipeline_instances'[n] = pipeline_instances[n])]_vars

\* C8: once a card has raised, build_workflow is over: nothing of a later
\* card is in the log or in the output table, the report is not written,
\* and no further step is taken
C8_FailFast ==
    /\ [](pipe_err # "none" =>
            /\ pc = "failed"
            /\ html_written = 0
            /\ \A n \in 1..Len(events) : events[n].card <= card_i
            /\ \A n \in DOMAIN pipeline_instances : pipeline_instances[n].card <= card_i
            /\ \A c \in (card_i + 1)..Len(inp_cards) : inp_cards[c] = parsed_cards[c])
    /\ [][pc = "failed" => UNCHANGED pipe_vars]_vars

C8_Witness ==
    /\ pc = "failed"
    /\ pipe_err = "ExecutionError"
    /\ card_i = 1
    /\ Len(inp_cards) = 2
    /\ ~IsSink(inp_cards[2])
    /\ DOMAIN pipeline_instances = {inp_cards[1].parameters.name}

\* the cards the main loop does not skip, in deck order
RECURSIVE StepCards(_, _)
StepCards(cards, i) ==
    IF i > Len(cards) THEN <<>>
    ELSE (IF IsSink(cards[i]) THEN <<>> ELSE <<i>>) \o StepCards(cards, i + 1)

\* the log of a complete run over the step cards
RECURSIVE FullLog(_)
FullLog(steps) ==
    IF Len(steps) = 0 THEN <<>>
    ELSE << [ev |-> "BOUND", card |-> Head(steps)],
            [ev |-> "OUTPUTS_RECORDED", card |-> Head(steps)],
            [ev |-> "GRAPH_BUILT", card |-> Head(steps)],
            [ev |-> "EXECUTED", card |-> Head(steps)],
            [ev |-> "REPORTED", card |-> Head(steps)] >> \o FullLog(Tail(steps))

\* the run is over and no card failed to bind, build or execute
OverWithNoStepFailure ==
    \/ pc = "done"
    \/ pc = "failed" /\ card_i > 0 /\ HasEvent("EXECUTED", card_i)

\* C9 as stated: when no step fails, every step card is bound, built and
\* executed once, in deck order, and the report is written once at the end
C9_EveryStepRunsInOrder ==
    OverWithNoStepFailure =>
        /\ html_written = 1
        /\ events = << [ev |-> "SINK_RESOLVED", card |-> 0] >>
                    \o FullLog(StepCards(inp_cards, 1))
                    \o << [ev |-> "WRITTEN", card |-> 0] >>

\* the card's step records a report output
DeclaresReport(card) == HasKey(set_outflows(card, <<>>), <<"report">>)

\* C10 as stated: an executed step is folded into the report exactly when
\* it records a report output, and a step without one raises nothing
C10_ReportOnlyWhenDeclared ==
    \A c \in 1..Len(inp_cards) :
        (HasEvent("EXECUTED", c) /\ ~(card_i = c /\ pc = "report")) =>
            /\ HasEvent("REPORTED", c) <=> DeclaresReport(inp_cards[c])
            /\ ~(pc = "failed" /\ card_i = c)

(***************************************************************************)
(* Properties of the batch driver                                          *)
(***************************************************************************)
\* the positions of inps up to n that are not positions of a kept pipeline
RECURSIVE FailedUpTo(_)
FailedUpTo(n) ==
    IF n = 0 THEN <<>>
    ELSE FailedUpTo(n - 1) \o
         (IF \E x \in 1..Len(pipelines) : pipelines[x].idx = n THEN <<>> ELSE <<inps[n]>>)

BetweenDecks == pc = "idle"

\* C7: the decks are attempted once each, in order; a deck that raised goes
\* to failed_runs only and a deck that completed to pipelines only; between
\* two decks the two lists partition the decks attempted so far, and the
\* loop stops only when every deck has been attempted
C7_BatchPartialFailure ==
    /\ [](/\ attempts = [n \in 1..inp_i |-> n]
          /\ \A x \in 1..Len(pipelines) : \A y \in 1..Len(pipelines) :
                x < y => pipelines[x].idx < pipelines[y].idx
          /\ \A x \in 1..Len(pipelines) :
                /\ pipelines[x].idx \in 1..inp_i
                /\ pipelines[x].input_deck_path = inps[pipelines[x].idx]
          /\ BetweenDecks =>
                /\ failed_runs = FailedUpTo(inp_i)
                /\ Len(pipelines) + Len(failed_runs) = inp_i
          /\ (BetweenDecks /\ inp_i < Len(inps)) => ENABLED BatchBegin)
    /\ [][/\ (pc = "failed" /\ pc' = "idle") =>
                (failed_runs' = Append(failed_runs, inps[inp_i]) /\ pipelines' = pipelines)
          /\ (pc = "done" /\ pc' = "idle") =>
                (pipelines' = Append(pipelines, [idx |-> inp_i, input_deck_path |-> inps[inp_i]])
                 /\ failed_runs' = failed_runs)
          /\ (pc \in {"failed", "done"}) => pc' = "idle"]_vars

C7_Witness ==
    /\ BetweenDecks
    /\ inps = <<"unbound", "good">>
    /\ inp_i = 2
    /\ failed_runs = <<"unbound">>
    /\ Len(pipelines) = 1
    /\ pipelines[1].idx = 2

(***************************************************************************)
(* Properties of the deck reader                                           *)
(***************************************************************************)
\* line i starts, case-insensitively, with the start / end marker
StartAt(i) == StartsWithStar(Strip(Lower(text[i])), "start")
EndAt(i) == StartsWithStar(Lower(Strip(text[i])), "end")

\* the text holds a start marker line and an end marker line after it
HasMarkers ==
    \E i \in 1..Len(text) : \E j \in (i + 1)..Len(text) : StartAt(i) /\ EndAt(j)

ReadOver == read_pc \in {"returned", "raised"}

\* C11: read_inp returns a card sequence only if the text holds a line
\* starting with the start marker and, after it, a line starting with the
\* end marker; when the start marker is absent, and when the end of the
\* file is reached, it raises InputDeckSyntaxError, whatever cards were
\* read before.
C11_MarkersOrSyntaxError ==
    /\ read_pc = "returned" => HasMarkers
    /\ (ReadOver /\ ~\E i \in 1..Len(text) : StartAt(i))
           => read_err = "InputDeckSyntaxError"
    /\ (ReadOver /\ read_at = Len(text) + 1) => read_err = "InputDeckSyntaxError"

\* a deck whose cards were read and whose end marker is missing
C11_Witness ==
    /\ read_pc = "raised"
    /\ read_err = "InputDeckSyntaxError"
    /\ \E i \in 1..Len(text) : StartAt(i)
    /\ Len(deck_cards) > 0
    /\ read_at = Len(text) + 1

\* a blank line, or a comment line whatever follows the '#'
NotSkippable(l) == ~(Len(Strip(l)) = 0 \/ StartsWith(Strip(l), commenter))

\* C12: blank lines and comment lines do not change the parse outcome:
\* the deck with these lines removed yields the same cards or the same
\* error.
C12_SkippedLinesChangeNothing ==
    ReadOver =>
        LET bare == read_inp(SelectSeq(text, NotSkippable), __debug__)
        IN  /\ bare.outcome = (IF read_pc = "returned" THEN "returned" ELSE read_err)
            /\ read_pc = "returned" => bare.cards = deck_cards

\* the line that starts the reading, and the lines read after it up to the
\* line read_inp ended on
FirstStart == CHOOSE i \in 1..Len(text) : StartAt(i) /\ \A h \in 1..(i - 1) : ~StartAt(h)
BodyRange == (FirstStart + 1)..(read_at - 1)

IsStar(i) == StartsWith(Strip(text[i]), "*")
IsParameterLine(i) == StartsWithStar(Lower(Strip(text[i])), "parameter")

\* the lines of a *parameter block: what follows the keyword up to the next
\* line starting with '*'
InBlock(i) ==
    /\ ~IsStar(i)
    /\ \E p \in BodyRange : /\ p < i
                            /\ IsParameterLine(p)
                            /\ \A q \in (p + 1)..(i - 1) : ~IsStar(q)

\* the card declarations and the data lines of the text
Decls == {i \in BodyRange : IsStar(i) /\ ~IsParameterLine(i)}
DataAt(i) == ~IsStar(i) /\ NotSkippable(text[i]) /\ ~InBlock(i)

\* the k-th declaration, and the declaration a data line follows
DeclNo(k) == CHOOSE d \in Decls : Cardinality({e \in Decls : e < d}) = k - 1
Owner(i) == Cardinality({d \in Decls : d < i})

\* the fields of a data line: split on commas, each trimmed, the placeholder
\* x holding the 5 a *parameter block of Texts gives it
FieldsAt(i) ==
    LET line == Substitute(Strip(text[i]), << << <<"x">>, <<"5">> >> >>).out
    IN  [j \in 1..Len(Split(line, ",")) |-> Strip(Split(line, ",")[j])]

\* the data lines of the k-th declaration from line i on, in file order
RECURSIVE DataOf(_, _)
DataOf(k, i) ==
    IF i >= read_at THEN <<>>
    ELSE (IF DataAt(i) /\ Owner(i) = k THEN <<FieldsAt(i)>> ELSE <<>>) \o DataOf(k, i + 1)

\* C13: for every deck that parses, the cards come in declaration order and
\* the data lines of each card are exactly the data lines between its
\* declaration and the next declaration or the end marker, in file order,
\* each split on commas with every field trimmed.
C13_DatalinesFollowDeclaration ==
    read_pc = "returned" =>
        /\ Len(deck_cards) = Cardinality(Decls)
        /\ \A k \in 1..Len(deck_cards) :
              /\ deck_cards[k].cardname
                     = Strip(Split(Lower(Strip(text[DeclNo(k)])), ",")[1])
              /\ deck_cards[k].datalines = DataOf(k, FirstStart + 1)

\* two cards, the first with a data line of two fields
C13_Witness ==
    /\ read_pc = "returned"
    /\ Len(deck_cards) = 2
    /\ Len(deck_cards[1].datalines) = 1
    /\ Len(deck_cards[1].datalines[1]) = 2
    /\ deck_cards[1].cardname # deck_cards[2].cardname

(***************************************************************************)
(* Properties of Card construction                                         *)
(***************************************************************************)
CtorOver == ctor_pc \in {"returned", "raised"}

\* the call names a step type of the catalog and every item is key=value,
\* so that a Default Record was looked up for the user's mapping
CtorChecked ==
    /\ CtorOver
    /\ HasKey(DefaultCatalog, JsonName(ctor_cardname))
    /\ \A j \in 1..Len(ctor_paras) : Len(Split(ctor_paras[j], "=")) = 2

\* the value kinds of the Default Record: the python type of the default
Kind(entry) == entry[2]

TrueTokens == {<<"true">>, <<"yes">>, <<"y">>}
FalseTokens == {<<"false">>, <<"no">>, <<"n">>, <<".">>, <<"-">>}

\* a user value the kind accepts, and the value it is coerced to
ValidValue(entry, v) ==
    CASE Kind(entry) = "int" -> IsNumeral(v)
      [] Kind(entry) = "bool" -> Lower(v) \in TrueTokens \cup FalseTokens
      [] Kind(entry) = "list" -> InSeq(v, entry[3])
      [] OTHER -> TRUE

Coerced(entry, v) ==
    CASE Kind(entry) = "int" -> PyInt(v)
      [] Kind(entry) = "bool" -> IF Lower(v) \in TrueTokens THEN PyTrue ELSE PyFalse
      [] OTHER -> v

\* the default of a key: the first allowed value of an enum
DefaultValue(entry) == IF Kind(entry) = "list" THEN entry[3][1] ELSE entry[3]

\* python ==, under which True == 1 and False == 0
SameValue(a, b) ==
    \/ a = b
    \/ {a, b} = {PyTrue, <<"int 1">>}
    \/ {a, b} = {PyFalse, <<"int 0">>}

GivenKeys == Keys(ctor_user) \cap Keys(ctor_defaults)

\* C14: a user-supplied key that is not in the Default Record makes the
\* construction raise a validation error; no Card is produced.
C14_UnknownKeyRejected ==
    (CtorChecked /\ Keys(ctor_user) \ Keys(ctor_defaults) # {})
        => ctor_pc = "raised" /\ ctor_err = "InputDeckSyntaxError"

\* C15: when the user supplies valid values for keys of the Default Record,
\* the constructed Card holds the coerced user value for each of them.
C15_OverrideLaw ==
    (/\ CtorChecked
     /\ ctor_user # <<>>
     /\ Keys(ctor_user) \subseteq Keys(ctor_defaults)
     /\ \A k \in Keys(ctor_user) : ValidValue(Entry(ctor_defaults, k), Lookup(ctor_user, k)))
        => /\ ctor_pc = "returned"
           /\ \A k \in Keys(ctor_user) :
                 /\ HasKey(ctor_card.parameters, k)
                 /\ SameValue(Lookup(ctor_card.parameters, k),
                              Coerced(Entry(ctor_defaults, k), Lookup(ctor_user, k)))

\* C16: a Card constructed without user overrides holds exactly the
\* defaults of its Default Record.
C16_IdentityLaw ==
    (CtorChecked /\ ctor_paras = <<>>)
        => /\ ctor_pc = "returned"
           /\ Keys(ctor_card.parameters) = Keys(ctor_defaults)
           /\ \A k \in Keys(ctor_defaults) :
                 SameValue(Lookup(ctor_card.parameters, k),
                           DefaultValue(Entry(ctor_defaults, k)))

\* C17: a user value that is no integer for an integer key makes the
\* construction fail, and a user value outside the allowed values of an
\* enum key makes it fail with a validation error.
C17_BadValueRejected ==
    CtorChecked =>
        \A k \in GivenKeys :
            /\ (Kind(Entry(ctor_defaults, k)) = "int" /\ ~IsNumeral(Lookup(ctor_user, k)))
                   => ctor_pc = "raised"
            /\ (Kind(Entry(ctor_defaults, k)) = "list"
                    /\ ~InSeq(Lookup(ctor_user, k), Entry(ctor_defaults, k)[3]))
                   => ctor_err = "InputDeckSyntaxError"

\* C18: for a boolean key the tokens true, yes, y give true, the tokens
\* false, no, n, '.', '-' give false, and any other text makes the
\* construction fail.
C18_BooleanTokens ==
    CtorChecked =>
        \A k \in GivenKeys :
            Kind(Entry(ctor_defaults, k)) = "bool" =>
                IF Lower(Lookup(ctor_user, k)) \in TrueTokens \cup FalseTokens
                THEN ctor_pc = "returned" =>
                        /\ HasKey(ctor_card.parameters, k)
                        /\ SameValue(Lookup(ctor_card.parameters, k),
                                     Coerced(Entry(ctor_defaults, k), Lookup(ctor_user, k)))
                ELSE ctor_pc = "raised"

\* C19: the parameter keys of a constructed Card are exactly the keys of
\* its Default Record.
C19_KeysAreDefaultKeys ==
    ctor_pc = "returned" => Keys(ctor_card.parameters) = Keys(ctor_defaults)

\* the records registered for the step type, and the first record the loop
\* of _load_defaults stops at: one without a 'type', or one whose 'type' is
\* the user's
Registered == Lookup(DefaultCatalog, JsonName(ctor_cardname))
Matches(i) ==
    /\ HasKey(Registered[i], <<"type">>)
    /\ Entry(Registered[i], <<"type">>)[3] = Lookup(ctor_user, <<"type">>)
Stops(i) == ~HasKey(Registered[i], <<"type">>) \/ Matches(i)
FirstStop == CHOOSE i \in 1..Len(Registered) : Stops(i) /\ \A h \in 1..(i - 1) : ~Stops(h)

\* C20 as stated: _load_defaults returns the record whose 'type' equals the
\* user's, and the first registered record when the user gave no 'type' or
\* no record has it.
C20_FallsBackToFirst ==
    CtorChecked =>
        ctor_defaults =
            IF HasKey(ctor_user, <<"type">>) /\ \E i \in 1..Len(Registered) : Matches(i)
            THEN Registered[CHOOSE i \in 1..Len(Registered) :
                                Matches(i) /\ \A h \in 1..(i - 1) : ~Matches(h)]
            ELSE Registered[1]

\* C20: _load_defaults returns the first record, in registration order,
\* whose 'type' equals the user's; the first registered record when the
\* user gave no 'type' or a record without a 'type' comes before any match;
\* and an empty record when every record has a 'type' and none is the
\* user's.
C20_NoMatchIsEmpty ==
    CtorChecked =>
        ctor_defaults =
            IF ~HasKey(ctor_user, <<"type">>) THEN Registered[1]
            ELSE IF ~\E i \in 1..Len(Registered) : Stops(i) THEN <<>>
            ELSE IF Matches(FirstStop) THEN Registered[FirstStop]
            ELSE Registered[1]

\* a 'type' no record of the step type has
C20_Witness ==
    /\ CtorChecked
    /\ HasKey(ctor_user, <<"type">>)
    /\ \A i \in 1..Len(Registered) : HasKey(Registered[i], <<"type">>) /\ ~Matches(i)
    /\ ctor_defaults = <<>>

(***************************************************************************)
(* Properties of the CardBuilder checks                                    *)
(***************************************************************************)
\* a count against a constraint string such as '>0'
Satisfies(count, e) ==
    CASE e[1] = "=" -> count = DigitValue(e[2])
      [] e[1] = ">" -> count > DigitValue(e[2])
      [] e[1] = "<" -> count < DigitValue(e[2])

IsConstraint(e) == e # PyNone /\ e[1] \in {"=", "<", ">"}

CheckOver == bld_pc \in {"checked", "raised"}

LinesHold == Satisfies(Len(bld_datalines), expected_lines)
Offending == {j \in 1..Len(bld_datalines) :
                ~Satisfies(Len(bld_datalines[j]), expected_in_lines)}

\* the message ends with the fields of the line, joined by ', '
NamesLine(msg, line) ==
    LET fields == JoinWith(<<",", " ">>, line)
    IN  /\ Len(msg) > Len(fields)
        /\ SubSeq(msg, Len(msg) - Len(fields) + 1, Len(msg)) = fields

C22_IsInteger(val) ==
    val \in {PyTrue, <<"3">>, <<" ", "5">>, <<" ", "0">>, <<"-", "3">>,
             <<"int 0">>, <<"int 3">>, <<"int -3">>}
C22_Integer(val) ==
    CASE val = PyTrue -> 1
      [] val = <<"3">> -> 3
      [] val = <<" ", "5">> -> 5
      [] val = <<" ", "0">> -> 0
      [] val = <<"-", "3">> -> 0 - 3
      [] val = <<"int 0">> -> 0
      [] val = <<"int 3">> -> 3
      [] val = <<"int -3">> -> 0 - 3

ForceOver == bld_pc \in {"forced", "force raised"}

C23_ParametersFixed ==
    [][\A i \in 1..Len(inp_cards) :
          i <= Len(inp_cards') =>
              /\ inp_cards'[i].parameters = inp_cards[i].parameters
              /\ (inp_cards'[i].datalines # inp_cards[i].datalines =>
                     inp_cards[i].datalines = parsed_cards[i].datalines)]_vars

\* the directory the sink card of the deck names, the working directory
\* when the deck has none
SinkCardsOf(cards) == {i \in 1..Len(cards) : IsSink(cards[i])}
SinkOf(cards) ==
    IF SinkCardsOf(cards) = {} THEN <<"cwd">>
    ELSE cards[CHOOSE i \in SinkCardsOf(cards) : TRUE].datalines[1][1]

\* C26: the sink directory is set by the first pass, before any card is
\* bound, to the first field of the first dataline of the sink card
\* wherever it stands in the deck, and to the working directory when there
\* is none; the outflows of every step are set with that directory; a sink
\* card is never bound, instantiated or run.
C26_SinkFixedFirst ==
    /\ pc = "start" => (events = <<>> /\ DOMAIN pipeline_instances = {})
    /\ events # <<>> => events[1].ev = "SINK_RESOLVED"
    /\ pc \notin {"idle", "start"} => sink_directory = SinkOf(parsed_cards)
    /\ \A n \in DOMAIN pipeline_instances :
          LET c == pipeline_instances[n].card
          IN  /\ ~IsSink(parsed_cards[c])
              /\ ~(card_i = c /\ pc = "outflows") =>
                    pipeline_instances[n].outflows =
                        set_outflows(inp_cards[c], SinkOf(parsed_cards))
    /\ \A n \in 1..Len(events) :
          events[n].card > 0 => ~IsSink(parsed_cards[events[n].card])

C26_Witness ==
    /\ Len(parsed_cards) = 2
    /\ ~IsSink(parsed_cards[1])
    /\ IsSink(parsed_cards[2])
    /\ HasEvent("EXECUTED", 1)
    /\ sink_directory = <<"out">>
    /\ pipeline_instances[parsed_cards[1].parameters.name].outflows =
          set_outflows(inp_cards[1], <<"out">>)

(***************************************************************************)
(* Properties of InputDeck.add_card                                        *)
(***************************************************************************)
\* the datalines Card.add_dataline builds from the given lines, in order
RECURSIVE LinesAdded(_, _)
LinesAdded(card, datalines) ==
    IF Len(datalines) = 0 THEN card.datalines
    ELSE LinesAdded(add_dataline(card, Head(datalines)), Tail(datalines))

\* C28 as stated: a call of add_card that returns has appended one Card
\* whose datalines are the given lines in the given order, and the Card's
\* add_dataline is still the method
C28_AddCardAddsDatalines ==
    (add_n > 0 /\ add_err = "none") =>
        /\ Len(deck_cards) = Len(add_call.before) + 1
        /\ SubSeq(deck_cards, 1, Len(add_call.before)) = add_call.before
        /\ deck_cards[Len(deck_cards)].cardname = add_call.cardname
        /\ deck_cards[Len(deck_cards)].datalines =
              LinesAdded(NoCard, add_call.datalines)
        /\ add_attr = BoundMethod

(***************************************************************************)
(* Properties of the *parameter block                                      *)
(***************************************************************************)
\* line k ends a *parameter block that follows the start marker at once
\* and holds assignments only
EndsBlock(k) ==
    /\ \E i \in 1..Len(text) : StartAt(i)
    /\ FirstStart + 2 < k
    /\ IsParameterLine(FirstStart + 1)
    /\ \A q \in (FirstStart + 2)..(k - 1) : text[q] = <<"x", "=", "5">>
    /\ IsStar(k)

\* C29 as stated, for the end marker: when the line that ends a parameter
\* block is the end marker, read_inp returns there with the cards read so
\* far, which are none
C29_BlockEndIsOrdinaryLine ==
    \A k \in 1..Len(text) :
        (ReadOver /\ EndsBlock(k) /\ EndAt(k)) =>
            (read_pc = "returned" /\ read_at = k /\ deck_cards = <<>>)

(***************************************************************************)
(* Properties of the pantry                                                *)
(***************************************************************************)
PantryOver == pantry_pc \in {"save raised", "load raised", "loaded"}

\* C24 as stated: saving a deck and reading the saved text back succeeds
\* and yields the cards of the deck, equal by step type, parameters and
\* datalines, none added, dropped or reordered
C24_RoundTrip ==
    PantryOver =>
        /\ pantry_pc = "loaded"
        /\ Len(loaded_cards) = Len(pantry_cards)
        /\ \A i \in 1..Len(pantry_cards) :
              /\ loaded_cards[i].cardname = pantry_cards[i].cardname
              /\ loaded_cards[i].parameters = pantry_cards[i].parameters
              /\ loaded_cards[i].datalines = pantry_cards[i].datalines

ScanOver == scan_pc \in {"done", "raised"}

\* C30 as stated: check_for_variables terminates for every deck
C30_ScanTerminates == <>ScanOver

(***************************************************************************)
(* Specifications                                                          *)
(***************************************************************************)
GraphInit ==
    /\ all_nodes = <<>>
    /\ connections = {}
    /\ node_inputs = {}
    /\ sink \in BOOLEAN
    /\ sink_connections = {}
    /\ n_added = 0
    /\ last_add = NoAdd
    /\ graph_err = "none"
    /\ PipeIdle
    /\ BatchIdle
    /\ ReaderIdle

GraphNext == add_node \/ add_mapnode

SpecGraph == GraphInit /\ [][GraphNext]_vars

PipelineInit ==
    /\ GraphIdle
    /\ BatchIdle
    /\ ReaderIdle
    /\ \E cards \in Decks : NewPipeline(cards)

PipelineNext ==
    \/ ResolveSink
    \/ BindCard
    \/ RecordInstance
    \/ SetOutflows
    \/ BuildGraph
    \/ RunGraph
    \/ IntegrateReport
    \/ WriteHtml

SpecPipeline == PipelineInit /\ [][PipelineNext]_vars

BatchInit ==
    /\ GraphIdle
    /\ PipeIdle
    /\ ReaderIdle
    /\ inps \in SeqsUpTo(DeckPaths, MaxDecks)
    /\ inp_i = 0
    /\ pipelines = <<>>
    /\ failed_runs = <<>>
    /\ attempts = <<>>

\* line 349, inside the try block, is the deck run
BatchNext == BatchBegin \/ PipelineNext \/ BatchAppend \/ BatchExcept

SpecBatch == BatchInit /\ [][BatchNext]_vars

CardInit0 ==
    /\ GraphIdle
    /\ PipeIdle
    /\ BatchIdle
    /\ ReadIdle
    /\ OthersIdle
    /\ __debug__ \in BOOLEAN
    /\ ctor_pc = "call"
    /\ ctor_cardname \in CardNames
    /\ ctor_paras \in SeqsUpTo(ParaChoices, MaxParas)
    /\ ctor_err = "none"
    /\ ctor_card = NoCard
    /\ ctor_user = <<>>
    /\ ctor_defaults = <<>>

CardNext == Card_init

SpecCard == CardInit0 /\ [][CardNext]_vars

ReadInit ==
    /\ GraphIdle
    /\ PipeIdle
    /\ BatchIdle
    /\ CtorIdle
    /\ OthersIdle
    /\ __debug__ \in BOOLEAN
    /\ text \in Texts
    /\ read_pc = "call"
    /\ read_err = "none"
    /\ deck_cards = <<>>
    /\ read_at = 0

ReadNext == ReadDeck

SpecRead == ReadInit /\ [][ReadNext]_vars

BuilderInit ==
    /\ GraphIdle
    /\ PipeIdle
    /\ BatchIdle
    /\ CtorIdle
    /\ ReadIdle
    /\ AddCardIdle
    /\ PantryIdle
    /\ ScanIdle
    /\ __debug__ = TRUE
    /\ bld_pc = "built"
    /\ bld_datalines \in SeqsUpTo(BuilderLines, MaxDatalines)
    /\ expected_lines \in CheckerStrings
    /\ expected_in_lines \in CheckerStrings
    /\ bld_err = "none"
    /\ bld_msg = <<>>
    /\ force_val = PyNone
    /\ force_out = 0

BuilderNext == CheckDatalines \/ ForceInteger

SpecBuilder == BuilderInit /\ [][BuilderNext]_vars

\* the InputDeck of a file that holds the two markers only
AddCardInit ==
    /\ GraphIdle
    /\ PipeIdle
    /\ BatchIdle
    /\ CtorIdle
    /\ BuilderIdle
    /\ __debug__ \in BOOLEAN
    /\ text = <<StartLine, EndLine>>
    /\ read_pc = "returned"
    /\ read_err = "none"
    /\ deck_cards = read_inp(text, __debug__).cards
    /\ read_at = read_inp(text, __debug__).at
    /\ AddCardIdle
    /\ PantryIdle
    /\ ScanIdle

AddCardNext == add_card

SpecAddCard == AddCardInit /\ [][AddCardNext]_vars

PantryInit ==
    /\ GraphIdle
    /\ PipeIdle
    /\ BatchIdle
    /\ CtorIdle
    /\ ReadIdle
    /\ BuilderIdle
    /\ AddCardIdle
    /\ ScanIdle
    /\ __debug__ \in BOOLEAN
    /\ pantry_pc = "deck"
    /\ pantry_cards \in PantryDecks(__debug__)
    /\ filename \in FileNames
    /\ saved_text = <<>>
    /\ pantry_err = "none"
    /\ loaded_cards = <<>>

PantryNext == SaveDeck \/ LoadDeck

SpecPantry == PantryInit /\ [][PantryNext]_vars

\* the -VARIABLES- event on a Deck of one card, with the mapping empty or
\* holding a value the user gave before
ScanInit ==
    /\ GraphIdle
    /\ PipeIdle
    /\ BatchIdle
    /\ CtorIdle
    /\ ReadIdle
    /\ BuilderIdle
    /\ AddCardIdle
    /\ __debug__ = FALSE
    /\ pantry_pc = "deck"
    /\ \E field \in BraceStrings, value \in ParameterValues :
          pantry_cards = <<ScanCard(field, value)>>
    /\ filename = <<>>
    /\ saved_text = <<>>
    /\ pantry_err = "none"
    /\ loaded_cards = <<>>
    /\ variables \in {<<>>, << << <<"{", "a", "}">>, <<"v">> >> >>}
    /\ scan_pc = "for"
    /\ scan_item = 0
    /\ scan_idx = 0
    /\ scan_err = "none"

ScanNext == ScanFor \/ ScanWhile \/ ScanBody

\* the interpreter keeps running the loops
SpecScan == ScanInit /\ [][ScanNext]_vars /\ WF_vars(ScanNext)

====
